---- MODULE Spec2Model ----
(***************************************************************************)
(* Cpk Calculator (src/app.py): the direct-input and CSV parsers, the     *)
(* statistics summarize() and compute_cpk(), and the script run that      *)
(* chains them.                                                            *)
(*                                                                         *)
(* Numbers are Python/NumPy floats, i.e. IEEE-754 binary64.  They are      *)
(* modelled exactly: a finite value is (-1)^s * m * 2^e with m an          *)
(* arbitrary-precision natural; every operation computes the exact result *)
(* and rounds it to 53 bits, ties to even, as the hardware does.          *)
(***************************************************************************)
EXTENDS Integers, Sequences, FiniteSets

(***************************************************************************)
(* Evaluation idiom.  An operator that uses an argument more than once     *)
(* first binds its value:                                                  *)
(*     Op(a0) == CHOOSE r \in { body(a) : a \in {a0} } : TRUE              *)
(* is body(a0) with a0 evaluated exactly once.  It means the same as a    *)
(* LET and keeps the cost of nested arithmetic linear.                     *)
(***************************************************************************)

(***************************************************************************)
(* Naturals of arbitrary size: little-endian sequences of limbs in        *)
(* 0..Base-1 without leading (last) zero limbs; <<>> is zero.              *)
(***************************************************************************)
LimbBits == 15

Base == 2^LimbBits

Max2(a, b) == IF a >= b THEN a ELSE b

Min2(a, b) == IF a <= b THEN a ELSE b

\* the greatest element of a non-empty finite set of integers
SetMax(S0) == CHOOSE r \in {CHOOSE x \in S : \A y \in S : y <= x : S \in {S0}} : TRUE

\* the least element of a non-empty finite set of integers
SetMin(S0) == CHOOSE r \in {CHOOSE x \in S : \A y \in S : x <= y : S \in {S0}} : TRUE

\* a without its high zero limbs
BNorm(a0) ==
  CHOOSE r \in {
    SubSeq(a, 1, SetMax({0} \cup {i \in 1..Len(a) : a[i] # 0}))
  : a \in {a0} } : TRUE

Rest(a) == IF a = <<>> THEN <<>> ELSE Tail(a)

First(a) == IF a = <<>> THEN 0 ELSE Head(a)

\* a + b + c for a carry c
RECURSIVE BAddC(_, _, _)
BAddC(a0, b0, c0) ==
  CHOOSE r \in {
    IF a = <<>> /\ b = <<>> THEN (IF c = 0 THEN <<>> ELSE <<c>>)
    ELSE <<(First(a) + First(b) + c) % Base>>
         \o BAddC(Rest(a), Rest(b), (First(a) + First(b) + c) \div Base)
  : a \in {a0}, b \in {b0}, c \in {c0} } : TRUE

BAdd(a, b) == BAddC(a, b, 0)

\* -1, 0, 1 as a < b, a = b, a > b
BCmp(a0, b0) ==
  CHOOSE r \in {
    IF Len(a) < Len(b) THEN 0 - 1
    ELSE IF Len(a) > Len(b) THEN 1
    ELSE IF a = b THEN 0
    ELSE CHOOSE r1 \in { IF a[i] < b[i] THEN 0 - 1 ELSE 1
                         : i \in {SetMax({j \in 1..Len(a) : a[j] # b[j]})} } : TRUE
  : a \in {a0}, b \in {b0} } : TRUE

\* a - b - c for a >= b + c and a borrow c, high zero limbs kept
RECURSIVE BSubC(_, _, _)
BSubC(a0, b0, c0) ==
  CHOOSE r \in {
    IF a = <<>> THEN <<>>
    ELSE <<(Head(a) - First(b) - c) % Base>>
         \o BSubC(Tail(a), Rest(b), IF Head(a) - First(b) - c < 0 THEN 1 ELSE 0)
  : a \in {a0}, b \in {b0}, c \in {c0} } : TRUE

\* a - b for a >= b
BSub(a, b) == BNorm(BSubC(a, b, 0))

\* a * k + c for 0 < k < Base and a carry c
RECURSIVE BMulSmallC(_, _, _)
BMulSmallC(a0, k0, c0) ==
  CHOOSE r \in {
    IF a = <<>> THEN (IF c = 0 THEN <<>> ELSE <<c>>)
    ELSE <<(Head(a) * k + c) % Base>>
         \o BMulSmallC(Tail(a), k, (Head(a) * k + c) \div Base)
  : a \in {a0}, k \in {k0}, c \in {c0} } : TRUE

\* a * k for 0 <= k < Base
BMulSmall(a, k0) ==
  CHOOSE r \in { IF k = 0 THEN <<>> ELSE BMulSmallC(a, k, 0) : k \in {k0} } : TRUE

\* a * b
RECURSIVE BMul(_, _)
BMul(a0, b0) ==
  CHOOSE r \in {
    IF a = <<>> \/ b = <<>> THEN <<>>
    ELSE CHOOSE r1 \in {
           BAdd(BMulSmall(a, Head(b)), IF rest = <<>> THEN <<>> ELSE <<0>> \o rest)
         : rest \in {BMul(a, Tail(b))} } : TRUE
  : a \in {a0}, b \in {b0} } : TRUE

\* << a \div k, a % k >> for 0 < k < Base, the quotient with its high zero
\* limbs kept: the high limbs are divided first
RECURSIVE BDivSmallRaw(_, _)
BDivSmallRaw(a0, k0) ==
  CHOOSE r \in {
    IF a = <<>> THEN << <<>>, 0 >>
    ELSE CHOOSE r1 \in {
           << <<(h[2] * Base + Head(a)) \div k>> \o h[1],
              (h[2] * Base + Head(a)) % k >>
         : h \in {BDivSmallRaw(Tail(a), k)} } : TRUE
  : a \in {a0}, k \in {k0} } : TRUE

\* << a \div k, a % k >> for 0 < k < Base
BDivSmall(a, k) ==
  CHOOSE r \in { << BNorm(qr[1]), qr[2] >> : qr \in {BDivSmallRaw(a, k)} } : TRUE

Zeros(n) == [i \in 1..n |-> 0]

\* a * 2^n
BShl(a0, n0) ==
  CHOOSE r \in {
    IF a = <<>> THEN <<>>
    ELSE Zeros(n \div LimbBits) \o BMulSmall(a, 2^(n % LimbBits))
  : a \in {a0}, n \in {n0} } : TRUE

\* a \div 2^n
BShr(a0, n0) ==
  CHOOSE r \in {
    IF n \div LimbBits >= Len(a) THEN <<>>
    ELSE BDivSmall(SubSeq(a, n \div LimbBits + 1, Len(a)), 2^(n % LimbBits))[1]
  : a \in {a0}, n \in {n0} } : TRUE

\* a % 2^n
BLow(a0, n0) ==
  CHOOSE r \in {
    IF n \div LimbBits >= Len(a) THEN a
    ELSE BNorm(SubSeq(a, 1, n \div LimbBits)
               \o <<a[n \div LimbBits + 1] % 2^(n % LimbBits)>>)
  : a \in {a0}, n \in {n0} } : TRUE

\* the number of bits of 0 <= x < Base
BitLenSmall(x0) ==
  CHOOSE r \in { Cardinality({i \in 0..(LimbBits - 1) : 2^i <= x}) : x \in {x0} } : TRUE

\* the number of bits of a
BBitLen(a0) ==
  CHOOSE r \in {
    IF a = <<>> THEN 0 ELSE LimbBits * (Len(a) - 1) + BitLenSmall(a[Len(a)])
  : a \in {a0} } : TRUE

BIsOdd(a0) == CHOOSE r \in { a # <<>> /\ a[1] % 2 = 1 : a \in {a0} } : TRUE

\* the value of a natural of at most two limbs
Small(a) ==
  IF a = <<>> THEN 0 ELSE IF Len(a) = 1 THEN a[1] ELSE a[1] + Base * a[2]

\* the largest d with d * b <= r, searched upwards from d0 <= that d
RECURSIVE BDigitFrom(_, _, _)
BDigitFrom(r, b, d0) ==
  CHOOSE d \in {
    IF BCmp(BMulSmall(b, d1 + 1), r) <= 0 THEN BDigitFrom(r, b, d1 + 1) ELSE d1
  : d1 \in {d0} } : TRUE

\* the largest d with d * b <= r, for r < b * Base: the quotient of the top
\* bits of r by the top LimbBits bits of b plus one is at most d, and close
BDigit(r0, b0) ==
  CHOOSE d \in {
    IF BCmp(r, b) < 0 THEN 0
    ELSE CHOOSE d1 \in {
           IF sh = 0 THEN Small(r) \div Small(b)
           ELSE BDigitFrom(r, b, Small(BShr(r, sh)) \div (Small(BShr(b, sh)) + 1))
         : sh \in {Max2(0, BBitLen(b) - LimbBits)} } : TRUE
  : r \in {r0}, b \in {b0} } : TRUE

\* one step of the long division by b: the remainder so far rh, the next
\* limb x of the dividend
BDivStep(qh, rh, x, b) ==
  CHOOSE s \in {
    CHOOSE s1 \in { << <<d>> \o qh, BSub(r, BMulSmall(b, d)) >>
                    : d \in {BDigit(r, b)} } : TRUE
  : r \in {BNorm(<<x>> \o rh)} } : TRUE

\* long division of a by b # 0, the high limbs first:
\* << quotient with its high zero limbs, remainder >>
RECURSIVE BDivModRaw(_, _)
BDivModRaw(a0, b0) ==
  CHOOSE r \in {
    IF a = <<>> THEN << <<>>, <<>> >>
    ELSE CHOOSE r1 \in { BDivStep(h[1], h[2], Head(a), b)
                         : h \in {BDivModRaw(Tail(a), b)} } : TRUE
  : a \in {a0}, b \in {b0} } : TRUE

\* << a \div b, a % b >> for b # 0
BDivMod(a, b) ==
  CHOOSE r \in { << BNorm(qr[1]), qr[2] >> : qr \in {BDivModRaw(a, b)} } : TRUE

\* Newton's iteration downwards from x >= sqrt(a) > 0
RECURSIVE BSqrtFrom(_, _)
BSqrtFrom(a0, x0) ==
  CHOOSE r \in {
    CHOOSE r1 \in { IF BCmp(y, x) >= 0 THEN x ELSE BSqrtFrom(a, y)
                    : y \in {BShr(BAdd(x, BDivMod(a, x)[1]), 1)} } : TRUE
  : a \in {a0}, x \in {x0} } : TRUE

\* floor(sqrt(n)) for 0 < n < Base^2 by Newton's iteration downwards from x
RECURSIVE SqrtSmallFrom(_, _)
SqrtSmallFrom(n, x0) ==
  CHOOSE r \in {
    IF (x + n \div x) \div 2 >= x THEN x
    ELSE SqrtSmallFrom(n, (x + n \div x) \div 2)
  : x \in {x0} } : TRUE

\* floor(sqrt(a)): Newton's iteration from the root of the top bits of a,
\* rounded up
BSqrt(a0) ==
  CHOOSE r \in {
    IF a = <<>> THEN <<>>
    ELSE CHOOSE r1 \in {
           BSqrtFrom(a, BShl(<<SqrtSmallFrom(Small(BShr(a, sh)), Base) + 1>>,
                             sh \div 2))
         : sh \in {2 * ((Max2(0, BBitLen(a) - 2 * LimbBits) + 1) \div 2)} } : TRUE
  : a \in {a0} } : TRUE

(***************************************************************************)
(* Python floats (binary64).  A finite value is [k |-> "fin", s, m, e],   *)
(* (-1)^s * m * 2^e, kept canonical: m odd, or m = 0 with e = 0.  None is  *)
(* Python's None, which the limits and sigma may be.                       *)
(***************************************************************************)
Precision == 53

\* the exponent of the least bit of a subnormal, and the first power of two
\* that overflows
MinExp == 0 - 1074

MaxTop == 1024

Fin(s, m, e) == [k |-> "fin", s |-> s, m |-> m, e |-> e]

NaN == [k |-> "nan", s |-> 0, m |-> <<>>, e |-> 0]

Inf(s) == [k |-> "inf", s |-> s, m |-> <<>>, e |-> 0]

None == [k |-> "none", s |-> 0, m |-> <<>>, e |-> 0]

Zero == Fin(0, <<>>, 0)

IsNaN(x) == x.k = "nan"

IsZero(x) == x.k = "fin" /\ x.m = <<>>

\* the number of low zero limbs of m # 0
ZeroLimbs(m0) ==
  CHOOSE r \in { SetMin({i \in 1..Len(m) : m[i] # 0}) - 1 : m \in {m0} } : TRUE

\* the number of low zero bits of 0 < x < Base
ZeroBits(x0) ==
  CHOOSE r \in { Cardinality({i \in 1..LimbBits : x % 2^i = 0}) : x \in {x0} } : TRUE

\* the canonical form of (-1)^s * m * 2^e
Canon(s, m0, e) ==
  CHOOSE r \in {
    IF m = <<>> THEN Fin(s, <<>>, 0)
    ELSE CHOOSE r1 \in { Fin(s, BShr(m, t), e + t)
           : t \in {LimbBits * ZeroLimbs(m) + ZeroBits(m[ZeroLimbs(m) + 1])} } : TRUE
  : m \in {m0} } : TRUE

\* (-1)^s * q * 2^et, or infinity when that is 2^MaxTop or more
Overflowing(s, q0, et) ==
  CHOOSE r \in {
    IF et + BBitLen(q) > MaxTop THEN Inf(s) ELSE Canon(s, q, et)
  : q \in {q0} } : TRUE

\* m * 2^e cut to a multiple q * 2^et of 2^et > 2^e, the half-way case to
\* the even q unless sticky
RoundAt(s, m, e, et, sticky) ==
  CHOOSE r \in {
    CHOOSE r1 \in {
      Overflowing(s, IF up THEN BAddC(q, <<>>, 1) ELSE q, et)
    : up \in {c > 0 \/ (c = 0 /\ (sticky \/ BIsOdd(q)))} } : TRUE
  : q \in {BShr(m, et - e)},
    c \in {BCmp(BLow(m, et - e), BShl(<<1>>, et - e - 1))} } : TRUE

\* (-1)^s * m * 2^e, plus a positive amount below 2^e when sticky (m then has
\* at least Precision + 2 bits), rounded to the nearest float, ties to even
Round(s0, m0, e0, sticky0) ==
  CHOOSE r \in {
    CHOOSE r1 \in {
      IF et <= e THEN Overflowing(s, m, e) ELSE RoundAt(s, m, e, et, sticky)
    : et \in {Max2(e + BBitLen(m) - Precision, MinExp)} } : TRUE
  : s \in {s0}, m \in {m0}, e \in {e0}, sticky \in {sticky0} } : TRUE

\* the position above the leading bit of a finite nonzero x
Top(x) == x.e + BBitLen(x.m)

\* -1, 0, 1 as |x| < |y|, |x| = |y|, |x| > |y| for finite x, y
MagCmp(x0, y0) ==
  CHOOSE r \in {
    IF x.m = <<>> \/ y.m = <<>>
    THEN (IF x.m # <<>> THEN 1 ELSE IF y.m # <<>> THEN 0 - 1 ELSE 0)
    ELSE IF Top(x) # Top(y) THEN (IF Top(x) < Top(y) THEN 0 - 1 ELSE 1)
    ELSE BCmp(BShl(x.m, x.e - Min2(x.e, y.e)), BShl(y.m, y.e - Min2(x.e, y.e)))
  : x \in {x0}, y \in {y0} } : TRUE

\* 1, 0, -1 for +infinity, a finite value, -infinity
InfSign(x) == IF x.k = "inf" THEN 1 - 2 * x.s ELSE 0

\* -1, 0, 1 as x < y, x = y, x > y for x, y finite or infinite
FCmp(x0, y0) ==
  CHOOSE r \in {
    IF x.k = "inf" \/ y.k = "inf"
    THEN (IF InfSign(x) < InfSign(y) THEN 0 - 1
          ELSE IF InfSign(x) > InfSign(y) THEN 1 ELSE 0)
    ELSE IF IsZero(x) /\ IsZero(y) THEN 0
    ELSE IF x.s # y.s THEN (IF IsZero(x) THEN (IF y.s = 1 THEN 1 ELSE 0 - 1)
                            ELSE IF x.s = 1 THEN 0 - 1 ELSE 1)
    ELSE IF x.s = 0 THEN MagCmp(x, y) ELSE MagCmp(y, x)
  : x \in {x0}, y \in {y0} } : TRUE

IsNum(x) == x.k \in {"fin", "inf"}

\* Python's x < y, x <= y, x == y on floats: False when either is NaN
FLt(x0, y0) ==
  CHOOSE r \in { IsNum(x) /\ IsNum(y) /\ FCmp(x, y) < 0 : x \in {x0}, y \in {y0} } : TRUE

FLe(x0, y0) ==
  CHOOSE r \in { IsNum(x) /\ IsNum(y) /\ FCmp(x, y) <= 0 : x \in {x0}, y \in {y0} } : TRUE

FNeg(x0) ==
  CHOOSE r \in { IF IsNum(x) THEN [x EXCEPT !.s = 1 - x.s] ELSE x : x \in {x0} } : TRUE

\* x + y for finite nonzero x and y with |x| >= |y|, y so far below x that
\* only its direction matters
AddFar(x, y) ==
  CHOOSE r \in {
    IF x.s = y.s THEN Round(x.s, BShl(x.m, k), x.e - k, TRUE)
    ELSE Round(x.s, BSub(BShl(x.m, k), <<1>>), x.e - k, TRUE)
  : k \in {Max2(3, Precision + 3 - BBitLen(x.m))} } : TRUE

\* x + y for finite nonzero x and y with |x| >= |y|: the exact sum, rounded
AddNear(x, y) ==
  CHOOSE r \in {
    IF x.s = y.s THEN Round(x.s, BAdd(mx, my), Min2(x.e, y.e), FALSE)
    ELSE IF mx = my THEN Zero
    ELSE Round(x.s, BSub(mx, my), Min2(x.e, y.e), FALSE)
  : mx \in {BShl(x.m, x.e - Min2(x.e, y.e))},
    my \in {BShl(y.m, y.e - Min2(x.e, y.e))} } : TRUE

AddFinite(x, y) ==
  IF Top(x) - Top(y) > Precision + 11 THEN AddFar(x, y) ELSE AddNear(x, y)

\* x + y
FAdd(x0, y0) ==
  CHOOSE r \in {
    IF IsNaN(x) \/ IsNaN(y) THEN NaN
    ELSE IF x.k = "inf" THEN (IF y.k = "inf" /\ y.s # x.s THEN NaN ELSE x)
    ELSE IF y.k = "inf" THEN y
    ELSE IF IsZero(x) /\ IsZero(y)
    THEN Fin(IF x.s = 1 /\ y.s = 1 THEN 1 ELSE 0, <<>>, 0)
    ELSE IF IsZero(y) THEN x
    ELSE IF IsZero(x) THEN y
    ELSE IF MagCmp(x, y) >= 0 THEN AddFinite(x, y) ELSE AddFinite(y, x)
  : x \in {x0}, y \in {y0} } : TRUE

\* x - y
FSub(x, y) == FAdd(x, FNeg(y))

Xor(a, b) == IF a = b THEN 0 ELSE 1

\* x * y
FMul(x0, y0) ==
  CHOOSE r \in {
    IF IsNaN(x) \/ IsNaN(y) THEN NaN
    ELSE IF x.k = "inf" \/ y.k = "inf"
    THEN (IF IsZero(x) \/ IsZero(y) THEN NaN ELSE Inf(Xor(x.s, y.s)))
    ELSE Round(Xor(x.s, y.s), BMul(x.m, y.m), x.e + y.e, FALSE)
  : x \in {x0}, y \in {y0} } : TRUE

\* x / y for finite nonzero x and y: Precision + 2 or more quotient bits,
\* sticky if the division leaves a remainder
DivFinite(x, y) ==
  CHOOSE r \in {
    CHOOSE r1 \in { Round(Xor(x.s, y.s), qr[1], x.e - y.e - k, qr[2] # <<>>)
                    : qr \in {BDivMod(BShl(x.m, k), y.m)} } : TRUE
  : k \in {Max2(0, Precision + 2 + BBitLen(y.m) - BBitLen(x.m))} } : TRUE

\* x / y as IEEE division (NumPy's true_divide; the divisors of this
\* program are never zero)
FDiv(x0, y0) ==
  CHOOSE r \in {
    IF IsNaN(x) \/ IsNaN(y) THEN NaN
    ELSE IF x.k = "inf" THEN (IF y.k = "inf" THEN NaN ELSE Inf(Xor(x.s, y.s)))
    ELSE IF y.k = "inf" THEN Fin(Xor(x.s, y.s), <<>>, 0)
    ELSE IF IsZero(y) THEN (IF IsZero(x) THEN NaN ELSE Inf(Xor(x.s, y.s)))
    ELSE IF IsZero(x) THEN Fin(Xor(x.s, y.s), <<>>, 0)
    ELSE DivFinite(x, y)
  : x \in {x0}, y \in {y0} } : TRUE

\* sqrt(x) for finite x > 0: the root of m * 2^k with e - k even and enough
\* bits, sticky if it is not exact
SqrtFinite(x) ==
  CHOOSE r \in {
    CHOOSE r1 \in { Round(0, rt, (x.e - k) \div 2, BMul(rt, rt) # BShl(x.m, k))
                    : rt \in {BSqrt(BShl(x.m, k))} } : TRUE
  : k \in {Max2(0, 2 * (Precision + 2) - BBitLen(x.m))
           + ((x.e - Max2(0, 2 * (Precision + 2) - BBitLen(x.m))) % 2)} } : TRUE

\* sqrt(x)
FSqrt(x0) ==
  CHOOSE r \in {
    IF IsNaN(x) THEN NaN
    ELSE IF IsZero(x) THEN x
    ELSE IF x.s = 1 THEN NaN
    ELSE IF x.k = "inf" THEN x
    ELSE SqrtFinite(x)
  : x \in {x0} } : TRUE

\* the float of a natural number given in limbs
FromNat(m) == Round(0, m, 0, FALSE)

\* the float of a small integer
FromInt(n0) ==
  CHOOSE r \in {
    IF n < 0 THEN FNeg(FromNat(BNorm(<<(0 - n) % Base, (0 - n) \div Base>>)))
    ELSE FromNat(BNorm(<<n % Base, n \div Base>>))
  : n \in {n0} } : TRUE

\* the float nearest to the decimal n / 10^d (one correctly rounded division)
Dec(n, d) == FDiv(FromInt(n), FromInt(10^d))

Three == FromInt(3)

(***************************************************************************)
(* NumPy reductions over a float array of fewer than 8 elements, where     *)
(* the pairwise summation of np.add.reduce is the plain left-to-right loop.*)
(***************************************************************************)
\* a[1] + ... + a[n], added from the left
RECURSIVE SumTo(_, _)
SumTo(a, n0) ==
  CHOOSE r \in {
    IF n = 0 THEN Zero ELSE FAdd(SumTo(a, n - 1), a[n])
  : n \in {n0} } : TRUE

\* np.sum / umr_sum
NpSum(a0) == CHOOSE r \in { SumTo(a, Len(a)) : a \in {a0} } : TRUE

\* the lesser of x and y as np.minimum takes it: NaN if either is NaN
Minimum(x0, y0) ==
  CHOOSE r \in {
    IF IsNaN(x) \/ IsNaN(y) THEN NaN ELSE IF FLt(y, x) THEN y ELSE x
  : x \in {x0}, y \in {y0} } : TRUE

\* the greater of x and y as np.maximum takes it: NaN if either is NaN
Maximum(x0, y0) ==
  CHOOSE r \in {
    IF IsNaN(x) \/ IsNaN(y) THEN NaN ELSE IF FLt(x, y) THEN y ELSE x
  : x \in {x0}, y \in {y0} } : TRUE

RECURSIVE MinTo(_, _)
MinTo(a, n0) ==
  CHOOSE r \in {
    IF n = 1 THEN a[1] ELSE Minimum(MinTo(a, n - 1), a[n])
  : n \in {n0} } : TRUE

\* np.min of a non-empty array
NpMin(a0) == CHOOSE r \in { MinTo(a, Len(a)) : a \in {a0} } : TRUE

RECURSIVE MaxTo(_, _)
MaxTo(a, n0) ==
  CHOOSE r \in {
    IF n = 1 THEN a[1] ELSE Maximum(MaxTo(a, n - 1), a[n])
  : n \in {n0} } : TRUE

\* np.max of a non-empty array
NpMax(a0) == CHOOSE r \in { MaxTo(a, Len(a)) : a \in {a0} } : TRUE

\* np.mean: the sum divided by the number of elements
NpMean(a0) ==
  CHOOSE r \in { FDiv(NpSum(a), FromInt(Len(a))) : a \in {a0} } : TRUE

\* arr - arrmean
Deviations(a, arrmean0) ==
  CHOOSE r \in {
    [i \in 1..Len(a) |-> FSub(a[i], arrmean)]
  : arrmean \in {arrmean0} } : TRUE

\* um.multiply(x, x)
Squares(x0) ==
  CHOOSE r \in { [i \in 1..Len(x) |-> FMul(x[i], x[i])] : x \in {x0} } : TRUE

\* np.std(a, ddof): sqrt( sum((a - mean)^2) / max(n - ddof, 0) )
NpStd(a0, ddof) ==
  CHOOSE r \in {
    FSqrt(FDiv(NpSum(Squares(Deviations(a, FDiv(NpSum(a), FromInt(Len(a)))))),
               FromInt(Max2(Len(a) - ddof, 0))))
  : a \in {a0} } : TRUE

\* an integer of a NumPy integer array: (-1)^s * m
IntVal(s, m) == [k |-> "int", s |-> s, m |-> m, e |-> 0]

\* the double of one element of an array: the nearest to an integer
AsFloat(v0) ==
  CHOOSE r \in {
    IF v.k = "int" THEN (IF v.s = 1 THEN FNeg(FromNat(v.m)) ELSE FromNat(v.m))
    ELSE v
  : v \in {v0} } : TRUE

\* np.asarray(values, dtype=float)
AsArray(values0) ==
  CHOOSE r \in { [i \in 1..Len(a) |-> AsFloat(a[i])] : a \in {values0} } : TRUE

\* arr[~np.isnan(arr)]
DropNaN(a) == SelectSeq(a, LAMBDA v : ~IsNaN(v))

\* the degrees of freedom removed by the sample standard deviation (ddof=1)
Ddof == 1

\* summarize with a fault: the population standard deviation (ddof = 0)
summarize_population(values0) ==
  CHOOSE r \in {
    IF Len(arr) = 0
    THEN [count |-> 0, mean |-> NaN, std |-> NaN, min |-> NaN, max |-> NaN]
    ELSE [count |-> Len(arr),
          mean |-> NpMean(arr),
          std |-> IF Len(arr) > 1 THEN NpStd(arr, 0) ELSE NaN,
          min |-> NpMin(arr),
          max |-> NpMax(arr)]
  : arr \in {DropNaN(AsArray(values0))} } : TRUE

summarize(values0) ==
  CHOOSE r \in {
    IF Len(arr) = 0
    THEN [count |-> 0, mean |-> NaN, std |-> NaN, min |-> NaN, max |-> NaN]
    ELSE [count |-> Len(arr),
          mean |-> NpMean(arr),
          std |-> IF Len(arr) > 1 THEN NpStd(arr, Ddof) ELSE NaN,
          min |-> NpMin(arr),
          max |-> NpMax(arr)]
  : arr \in {DropNaN(AsArray(values0))} } : TRUE

(***************************************************************************)
(* compute_cpk.  Arithmetic on None raises TypeError, modelled as the      *)
(* value Raised, which every later operation passes on.                    *)
(***************************************************************************)
Raised == [k |-> "raised", s |-> 0, m |-> <<>>, e |-> 0]

\* x - y on Python floats: TypeError on None
PySub(x0, y0) ==
  CHOOSE r \in {
    IF x.k \in {"none", "raised"} \/ y.k \in {"none", "raised"} THEN Raised
    ELSE FSub(x, y)
  : x \in {x0}, y \in {y0} } : TRUE

\* x / y on Python floats: TypeError on None, ZeroDivisionError on a zero y
PyDiv(x0, y0) ==
  CHOOSE r \in {
    IF x.k \in {"none", "raised"} \/ y.k \in {"none", "raised"} THEN Raised
    ELSE IF IsZero(y) THEN Raised
    ELSE FDiv(x, y)
  : x \in {x0}, y \in {y0} } : TRUE

\* `x is not None and not pd.isna(x)`
Present(x) == x.k # "none" /\ ~IsNaN(x)

\* MinOfVals with a fault: the greatest one-sided value
MaxOfVals(vals0) ==
  CHOOSE r \in {
    IF \E i \in 1..Len(vals) : vals[i] = Raised THEN Raised ELSE NpMax(vals)
  : vals \in {vals0} } : TRUE

\* float(np.min(vals))
MinOfVals(vals0) ==
  CHOOSE r \in {
    IF \E i \in 1..Len(vals) : vals[i] = Raised THEN Raised ELSE NpMin(vals)
  : vals \in {vals0} } : TRUE

\* lines 42-43: vals.append((usl - mean) / (3.0 * sigma))
UpperVals(mean, sigma, usl) ==
  IF Present(usl) THEN <<PyDiv(PySub(usl, mean), FMul(Three, sigma))>> ELSE <<>>

\* LowerVals with a fault: the subtraction the wrong way round
LowerValsSwapped(mean, sigma, lsl) ==
  IF Present(lsl) THEN <<PyDiv(PySub(lsl, mean), FMul(Three, sigma))>> ELSE <<>>

\* lines 44-45: vals.append((mean - lsl) / (3.0 * sigma))
LowerVals(mean, sigma, lsl) ==
  IF Present(lsl) THEN <<PyDiv(PySub(mean, lsl), FMul(Three, sigma))>> ELSE <<>>

\* compute_cpk with a fault: the guard lets sigma = 0 through
compute_cpk_zero_sigma(mean0, sigma0, usl0, lsl0) ==
  CHOOSE r \in {
    IF sigma.k = "none" \/ IsNaN(sigma) \/ FLt(sigma, Zero) THEN NaN
    ELSE CHOOSE r1 \in {
           IF vals = <<>> THEN NaN ELSE MinOfVals(vals)
         : vals \in {UpperVals(mean, sigma, usl) \o LowerVals(mean, sigma, lsl)} } : TRUE
  : mean \in {mean0}, sigma \in {sigma0}, usl \in {usl0}, lsl \in {lsl0} } : TRUE

compute_cpk(mean0, sigma0, usl0, lsl0) ==
  CHOOSE r \in {
    IF sigma.k = "none" \/ IsNaN(sigma) \/ FLe(sigma, Zero) THEN NaN
    ELSE CHOOSE r1 \in {
           IF vals = <<>> THEN NaN ELSE MinOfVals(vals)
         : vals \in {UpperVals(mean, sigma, usl) \o LowerVals(mean, sigma, lsl)} } : TRUE
  : mean \in {mean0}, sigma \in {sigma0}, usl \in {usl0}, lsl \in {lsl0} } : TRUE

(***************************************************************************)
(* Text.  A string is a sequence of characters, each written as a TLA+    *)
(* string: the character itself ("\t", "\n", "\f", "\r" for the controls  *)
(* that have such a notation), or the name of a character that has none:  *)
(* "VT" (U+000B), "FS", "GS", "RS", "US" (U+001C to U+001F), "NEL"         *)
(* (U+0085), "NBSP" (U+00A0) and "U+1680", "U+2000", ... for the spaces   *)
(* beyond Latin-1.                                                         *)
(***************************************************************************)
Digits == <<"0", "1", "2", "3", "4", "5", "6", "7", "8", "9">>

\* isdigit_ascii
IsDigit(c) == \E i \in 1..Len(Digits) : Digits[i] = c

DigitVal(c) == (CHOOSE i \in 1..Len(Digits) : Digits[i] = c) - 1

\* the characters of which str.isspace() is true: what str.strip() removes
PyWhitespace ==
  {"\t", "\n", "VT", "\f", "\r", "FS", "GS", "RS", "US", " ", "NEL", "NBSP",
   "U+1680", "U+2000", "U+2001", "U+2002", "U+2003", "U+2004", "U+2005",
   "U+2006", "U+2007", "U+2008", "U+2009", "U+200A", "U+2028", "U+2029",
   "U+202F", "U+205F", "U+3000"}

IsSpace(c) == c \in PyWhitespace

\* pandas' isspace_ascii: the whitespace of the C locale
isspace_ascii(c) == c \in {" ", "\t", "\n", "VT", "\f", "\r"}

\* tolower of the C locale
ToLower(c) ==
  LET upper == <<"A", "B", "C", "D", "E", "F", "G", "H", "I", "J", "K", "L", "M",
                 "N", "O", "P", "Q", "R", "S", "T", "U", "V", "W", "X", "Y", "Z">>
      lower == <<"a", "b", "c", "d", "e", "f", "g", "h", "i", "j", "k", "l", "m",
                 "n", "o", "p", "q", "r", "s", "t", "u", "v", "w", "x", "y", "z">>
  IN  IF \E i \in 1..26 : upper[i] = c
      THEN lower[CHOOSE i \in 1..26 : upper[i] = c]
      ELSE c

\* Replace with a fault: nothing is replaced
ReplaceNothing(str0, old, new) == str0

\* str.replace(old, new) for single characters
Replace(str0, old, new) ==
  CHOOSE r \in {
    [i \in 1..Len(str) |-> IF str[i] = old THEN new ELSE str[i]]
  : str \in {str0} } : TRUE

\* the k-th least element of a finite set of integers
Nth(S, k) == CHOOSE x \in S : Cardinality({y \in S : y < x}) = k - 1

\* str.split(sep): the pieces between separators, empty pieces included;
\* cuts are the positions of the separators, with both ends of str
Split(str0, sep) ==
  CHOOSE r \in {
    [k \in 1..(Cardinality(cuts) - 1) |->
       SubSeq(str, Nth(cuts, k) + 1, Nth(cuts, k + 1) - 1)]
  : str \in {str0},
    cuts \in {{0, Len(str0) + 1} \cup {i \in 1..Len(str0) : str0[i] = sep}} } : TRUE

\* str.strip(): without leading and trailing whitespace
Strip(str0) ==
  CHOOSE r \in {
    SubSeq(str,
           SetMin({Len(str) + 1} \cup {i \in 1..Len(str) : ~IsSpace(str[i])}),
           SetMax({0} \cup {i \in 1..Len(str) : ~IsSpace(str[i])}))
  : str \in {str0} } : TRUE

\* [t.strip() for t in pieces if t.strip()]
StripNonEmpty(pieces0) ==
  CHOOSE r \in {
    SelectSeq([i \in 1..Len(pieces) |-> Strip(pieces[i])], LAMBDA t : t # <<>>)
  : pieces \in {pieces0} } : TRUE

\* line 119: the tokens of the pasted text
Tokens(raw0) == StripNonEmpty(Split(Replace(raw0, "\n", ","), ","))

(***************************************************************************)
(* pd.to_numeric(..., errors="coerce") on strings.  Each string goes      *)
(* through pandas' floatify: precise_xstrtod (whitespace, a sign, digits, *)
(* "." and decimals, an exponent, whitespace, the end of the string), and *)
(* failing that the words for infinity.  precise_xstrtod accumulates at   *)
(* most 17 digits in a double and scales it by a power of ten taken from  *)
(* a table of doubles, so its result need not be the nearest double.      *)
(*                                                                         *)
(* The exponent is held in a C int.  When its digits or their sum with    *)
(* the count of the decimals pass the range of an int, the behaviour of   *)
(* precise_xstrtod is undefined: builds that compute in two's complement  *)
(* go on with the wrapped exponent, others read the table e[] far outside *)
(* it and are killed by the signal or scale by whatever lies there, which *)
(* leaves the double open.  The conversions are therefore sets of         *)
(* outcomes, of one element wherever the behaviour is defined.            *)
(***************************************************************************)
\* max_digits
MaxDigits == 17

\* the greatest decimal exponent, the last index of the table e[]
MaxExponent == 308

\* static double e[] = {1., 1e1, ..., 1e308}: the mantissa and the binary
\* exponent of the double nearest to each power of ten
PowersOfTen ==
  <<
    << <<1>>, 0 >>, << <<5>>, 1 >>, << <<25>>, 2 >>, << <<125>>, 3 >>,
    << <<625>>, 4 >>, << <<3125>>, 5 >>, << <<15625>>, 6 >>,
    << <<12589, 2>>, 7 >>, << <<30177, 11>>, 8 >>, << <<19813, 59>>, 9 >>,
    << <<761, 298>>, 10 >>, << <<3805, 1490>>, 11 >>,
    << <<19025, 7450>>, 12 >>, << <<29589, 4484, 1>>, 13 >>,
    << <<16873, 22424, 5>>, 14 >>, << <<18829, 13818, 28>>, 15 >>,
    << <<28609, 3556, 142>>, 16 >>, << <<11973, 17784, 710>>, 17 >>,
    << <<27097, 23385, 3552>>, 18 >>, << <<4413, 18625, 17763>>, 19 >>,
    << <<22065, 27589, 23281, 2>>, 20 >>,
    << <<12021, 6876, 18105, 13>>, 21 >>,
    << <<27337, 1613, 24990, 67>>, 22 >>,
    << <<9595, 18401, 23045, 84>>, 25 >>,
    << <<26477, 15596, 30787, 52>>, 29 >>,
    << <<657, 22608, 11432, 132>>, 31 >>,
    << <<821, 28260, 14290, 165>>, 34 >>,
    << <<16897, 25854, 13027, 103>>, 38 >>,
    << <<4737, 24126, 8092, 129>>, 41 >>,
    << <<22305, 30157, 18307, 161>>, 44 >>,
    << <<18037, 14752, 31922, 100>>, 48 >>,
    << <<11273, 17412, 3567, 63>>, 52 >>,
    << <<28183, 27146, 25302, 157>>, 54 >>,
    << <<12903, 4387, 9955, 49>>, 59 >>,
    << <<31747, 21936, 17007, 246>>, 60 >>,
    << <<9921, 29383, 1218, 77>>, 65 >>, << <<8419, 7922, 19431, 192>>, 67 >>,
    << <<26907, 1710, 24289, 240>>, 70 >>,
    << <<8625, 21549, 15180, 150>>, 74 >>,
    << <<18973, 26936, 2591, 188>>, 77 >>,
    << <<23717, 25478, 3239, 235>>, 80 >>,
    << <<6631, 28212, 30696, 146>>, 84 >>,
    << <<8289, 2497, 21987, 183>>, 87 >>,
    << <<18553, 27697, 19291, 229>>, 90 >>,
    << <<24403, 11495, 28614, 35>>, 96 >>,
    << <<11855, 28739, 22383, 89>>, 98 >>,
    << <<6627, 27732, 3403, 112>>, 101 >>,
    << <<10263, 23002, 1063, 35>>, 106 >>,
    << <<18547, 16707, 5318, 175>>, 107 >>,
    << <<14991, 4500, 31224, 218>>, 110 >>,
    << <<12877, 17790, 13853, 68>>, 115 >>,
    << <<30711, 5046, 22045, 2>>, 123 >>,
    << <<22483, 25234, 11921, 13>>, 124 >>,
    << <<14111, 27869, 26840, 66>>, 125 >>,
    << <<25831, 2068, 17167, 83>>, 128 >>,
    << <<31809, 21555, 26533, 208>>, 130 >>,
    << <<15785, 17568, 16583, 130>>, 134 >>,
    << <<19731, 13768, 4345, 163>>, 137 >>,
    << <<24663, 25402, 30007, 203>>, 140 >>,
    << <<14445, 23561, 29317, 254>>, 143 >>,
    << <<15569, 29281, 27108, 39>>, 149 >>,
    << <<12309, 15335, 4472, 199>>, 150 >>,
    << <<7195, 19169, 30166, 248>>, 153 >>,
    << <<24977, 3788, 18854, 155>>, 157 >>,
    << <<31221, 21119, 15375, 194>>, 160 >>,
    << <<31801, 25487, 17801, 121>>, 164 >>,
    << <<31559, 7283, 30444, 151>>, 167 >>,
    << <<31257, 9104, 29863, 189>>, 170 >>,
    << <<6303, 3189, 12753, 237>>, 173 >>,
    << <<10201, 22002, 3016, 37>>, 179 >>,
    << <<18237, 11707, 15083, 185>>, 180 >>,
    << <<20035, 17994, 31337, 57>>, 185 >>,
    << <<17319, 28602, 29191, 144>>, 187 >>,
    << <<5265, 27561, 3721, 181>>, 190 >>,
    << <<14773, 9875, 12844, 226>>, 193 >>,
    << <<5137, 22556, 16219, 141>>, 197 >>,
    << <<19595, 10001, 14233, 88>>, 201 >>,
    << <<32603, 8619, 2815, 221>>, 203 >>,
    << <<16281, 17675, 5855, 138>>, 207 >>,
    << <<12159, 13902, 23703, 172>>, 210 >>,
    << <<31583, 9185, 29629, 215>>, 213 >>,
    << <<7451, 9837, 30806, 134>>, 217 >>,
    << <<8753, 30724, 11061, 84>>, 221 >>,
    << <<21883, 27658, 27654, 210>>, 223 >>,
    << <<21869, 9094, 25476, 131>>, 227 >>,
    << <<1369, 21901, 19340, 20>>, 233 >>,
    << <<6845, 11201, 31167, 102>>, 234 >>,
    << <<12379, 26028, 5643, 32>>, 239 >>,
    << <<29127, 31837, 28218, 160>>, 240 >>,
    << <<11833, 23413, 2505, 201>>, 243 >>,
    << <<22983, 4690, 11324, 251>>, 246 >>,
    << <<22557, 19315, 2981, 157>>, 250 >>,
    << <<5001, 24468, 2979, 49>>, 255 >>,
    << <<25005, 24036, 14898, 245>>, 256 >>,
    << <<24387, 30379, 11543, 38>>, 262 >>,
    << <<23631, 20826, 24951, 191>>, 263 >>,
    << <<13155, 17841, 22997, 239>>, 266 >>,
    << <<14351, 24007, 29714, 74>>, 271 >>,
    << <<19493, 27250, 8750, 187>>, 273 >>,
    << <<20375, 8839, 1373, 117>>, 277 >>,
    << <<17277, 19241, 9908, 146>>, 280 >>,
    << <<32023, 14204, 23576, 45>>, 285 >>,
    << <<29043, 5488, 19578, 228>>, 286 >>,
    << <<26845, 17836, 28153, 17>>, 293 >>,
    << <<3153, 23648, 9695, 89>>, 294 >>,
    << <<3941, 21368, 20311, 111>>, 297 >>,
    << <<4927, 18518, 17197, 139>>, 300 >>,
    << <<27655, 15669, 6652, 87>>, 304 >>,
    << <<9993, 19587, 123, 109>>, 307 >>,
    << <<4299, 16292, 8346, 136>>, 310 >>,
    << <<19071, 18374, 5216, 85>>, 314 >>,
    << <<14909, 13168, 29425, 212>>, 316 >>,
    << <<4659, 14355, 17387, 66>>, 321 >>,
    << <<12251, 19608, 9811, 1>>, 330 >>,
    << <<28487, 32505, 16289, 6>>, 331 >>,
    << <<11363, 31457, 15913, 32>>, 332 >>,
    << <<24047, 26214, 14033, 162>>, 333 >>,
    << <<13675, 8192, 1158, 203>>, 336 >>,
    << <<17093, 26624, 26023, 253>>, 339 >>,
    << <<10683, 28928, 20360, 158>>, 343 >>,
    << <<6677, 18080, 4533, 99>>, 347 >>,
    << <<16693, 28816, 27717, 247>>, 349 >>,
    << <<10433, 22106, 29611, 154>>, 353 >>,
    << <<29425, 19440, 20630, 193>>, 356 >>,
    << <<4013, 7917, 1212, 242>>, 359 >>,
    << <<1651, 13525, 26813, 37>>, 365 >>,
    << <<8255, 2089, 2995, 189>>, 366 >>,
    << <<18511, 27187, 11935, 236>>, 369 >>,
    << <<3737, 31024, 28305, 73>>, 374 >>,
    << <<4671, 14204, 10806, 92>>, 377 >>,
    << <<5839, 1371, 13508, 115>>, 380 >>,
    << <<32321, 17240, 4346, 72>>, 384 >>,
    << <<15267, 10334, 10866, 180>>, 386 >>,
    << <<17059, 23709, 11587, 56>>, 391 >>,
    << <<26263, 10121, 28969, 140>>, 393 >>,
    << <<8253, 20844, 3443, 176>>, 396 >>,
    << <<10317, 17863, 4304, 220>>, 399 >>,
    << <<25747, 4793, 19624, 8>>, 407 >>,
    << <<30431, 23968, 32584, 42>>, 408 >>,
    << <<21083, 21540, 31851, 214>>, 409 >>,
    << <<29561, 9366, 11715, 134>>, 413 >>,
    << <<20567, 3516, 31028, 167>>, 416 >>,
    << <<25709, 4395, 30593, 209>>, 419 >>,
    << <<27569, 5806, 26284, 32>>, 425 >>,
    << <<6773, 29034, 348, 164>>, 426 >>,
    << <<12425, 1762, 16602, 102>>, 430 >>,
    << <<31915, 18586, 4368, 128>>, 433 >>,
    << <<28139, 11616, 2730, 80>>, 437 >>,
    << <<17587, 15452, 1706, 50>>, 441 >>,
    << <<22399, 11726, 8532, 250>>, 442 >>,
    << <<5807, 23713, 13524, 156>>, 446 >>,
    << <<15451, 29641, 16905, 195>>, 449 >>,
    << <<30137, 6237, 6470, 122>>, 453 >>,
    << <<13095, 24181, 24471, 152>>, 456 >>,
    << <<24561, 22034, 30589, 190>>, 459 >>,
    << <<14317, 2967, 21853, 238>>, 462 >>,
    << <<21693, 17871, 9558, 37>>, 468 >>,
    << <<10161, 23822, 15024, 186>>, 469 >>,
    << <<29085, 29777, 2396, 233>>, 472 >>,
    << <<19329, 1113, 27373, 72>>, 477 >>,
    << <<31939, 19167, 2896, 182>>, 479 >>,
    << <<32509, 5989, 29577, 56>>, 484 >>,
    << <<28591, 28495, 25626, 17>>, 489 >>,
    << <<11883, 11407, 29830, 88>>, 490 >>,
    << <<19715, 31705, 18643, 55>>, 494 >>,
    << <<135, 30112, 30225, 138>>, 496 >>,
    << <<169, 13064, 21398, 173>>, 499 >>,
    << <<16437, 32754, 8734, 54>>, 504 >>,
    << <<18465, 12279, 30035, 33>>, 508 >>,
    << <<26789, 28629, 19104, 169>>, 509 >>,
    << <<8911, 3019, 32073, 211>>, 512 >>,
    << <<1473, 22367, 15949, 132>>, 516 >>,
    << <<13209, 18075, 26352, 82>>, 520 >>,
    << <<8319, 22594, 16556, 103>>, 523 >>,
    << <<26783, 28242, 12503, 129>>, 526 >>,
    << <<24931, 29939, 28294, 80>>, 530 >>,
    << <<5743, 5260, 8842, 25>>, 535 >>,
    << <<28715, 26300, 11442, 126>>, 536 >>,
    << <<1563, 24630, 31727, 78>>, 540 >>,
    << <<3907, 12423, 13783, 197>>, 542 >>,
    << <<7365, 10026, 22739, 61>>, 547 >>,
    << <<12795, 2170, 18308, 38>>, 551 >>,
    << <<16189, 17740, 3250, 24>>, 555 >>,
    << <<30817, 13564, 32505, 240>>, 555 >>,
    << <<2877, 28958, 20315, 150>>, 559 >>,
    << <<13187, 23385, 2252, 47>>, 564 >>,
    << <<399, 18623, 11263, 235>>, 565 >>,
    << <<12537, 23927, 2943, 147>>, 569 >>,
    << <<21415, 31386, 32203, 22>>, 575 >>,
    << <<8771, 25861, 29947, 114>>, 576 >>,
    << <<21173, 22417, 29838, 35>>, 581 >>,
    << <<7561, 13784, 18121, 179>>, 582 >>,
    << <<9451, 25422, 14459, 224>>, 585 >>,
    << <<30483, 11792, 9037, 140>>, 589 >>,
    << <<5335, 22933, 11296, 175>>, 592 >>,
    << <<14861, 28666, 5928, 219>>, 595 >>,
    << <<18569, 6335, 4047, 17>>, 602 >>,
    << <<27309, 31677, 20235, 85>>, 603 >>,
    << <<19121, 30042, 1437, 214>>, 605 >>,
    << <<20143, 22872, 25474, 133>>, 609 >>,
    << <<12589, 22487, 20017, 83>>, 613 >>,
    << <<15089, 7066, 892, 209>>, 615 >>,
    << <<8811, 26784, 10518, 65>>, 620 >>,
    << <<5507, 8548, 27054, 40>>, 624 >>,
    << <<27535, 9972, 4199, 204>>, 625 >>,
    << <<1651, 4274, 5249, 255>>, 628 >>,
    << <<29825, 2893, 30618, 19>>, 635 >>,
    << <<18053, 14469, 22018, 99>>, 636 >>,
    << <<15379, 17235, 9665, 62>>, 640 >>,
    << <<1379, 7813, 24038, 9>>, 646 >>,
    << <<27579, 25188, 22012, 194>>, 645 >>,
    << <<853, 32127, 21949, 121>>, 649 >>,
    << <<12821, 24175, 1430, 76>>, 653 >>,
    << <<15669, 27670, 3576, 190>>, 655 >>,
    << <<1601, 17294, 26811, 118>>, 659 >>,
    << <<18385, 13425, 17130, 148>>, 662 >>,
    << <<31971, 16582, 27090, 92>>, 666 >>,
    << <<14391, 8689, 2190, 232>>, 668 >>,
    << <<29475, 30006, 1368, 145>>, 672 >>,
    << <<20459, 4740, 9903, 181>>, 675 >>,
    << <<29171, 15250, 10285, 113>>, 679 >>,
    << <<15591, 18087, 27939, 8>>, 686 >>,
    << <<12419, 24901, 8625, 44>>, 687 >>,
    << <<29327, 26202, 10360, 221>>, 688 >>,
    << <<26521, 16376, 10571, 138>>, 692 >>,
    << <<383, 12279, 29598, 172>>, 695 >>,
    << <<25055, 31732, 4229, 216>>, 698 >>,
    << <<8011, 30558, 25236, 33>>, 704 >>,
    << <<20027, 10859, 13940, 84>>, 706 >>,
    << <<8421, 23171, 25096, 52>>, 710 >>,
    << <<4669, 25160, 29973, 131>>, 712 >>,
    << <<17843, 26294, 7318, 41>>, 717 >>,
    << <<23679, 400, 3826, 206>>, 718 >>,
    << <<14799, 8442, 26967, 128>>, 722 >>,
    << <<2115, 2361, 941, 161>>, 725 >>,
    << <<27285, 2785, 10534, 50>>, 730 >>,
    << <<5353, 13929, 19902, 251>>, 731 >>,
    << <<23825, 513, 8343, 157>>, 735 >>,
    << <<2603, 12609, 9310, 98>>, 739 >>,
    << <<22891, 31522, 23275, 245>>, 741 >>,
    << <<22499, 15605, 18643, 153>>, 745 >>,
    << <<25463, 2828, 32450, 47>>, 750 >>,
    << <<29011, 14143, 31178, 239>>, 751 >>,
    << <<32181, 20641, 16135, 37>>, 757 >>,
    << <<29833, 4905, 15142, 187>>, 758 >>,
    << <<12715, 22516, 10735, 234>>, 761 >>,
    << <<24331, 26360, 14901, 146>>, 765 >>,
    << <<30413, 8374, 2243, 183>>, 768 >>,
    << <<21633, 2276, 27380, 228>>, 771 >>,
    << <<30541, 17496, 30765, 8>>, 779 >>,
    << <<21633, 21948, 22755, 44>>, 780 >>,
    << <<21315, 5719, 24121, 111>>, 782 >>,
    << <<12805, 28411, 30065, 34>>, 787 >>,
    << <<3907, 5469, 26983, 21>>, 791 >>,
    << <<19535, 27345, 3843, 109>>, 792 >>,
    << <<32611, 25989, 12996, 136>>, 795 >>,
    << <<28623, 16313, 20445, 42>>, 800 >>,
    << <<12043, 16033, 3923, 213>>, 801 >>,
    << <<28007, 5924, 6548, 133>>, 805 >>,
    << <<23587, 29299, 19711, 2>>, 814 >>,
    << <<19185, 17449, 4087, 208>>, 811 >>,
    << <<32619, 11596, 1277, 65>>, 816 >>,
    << <<4003, 11344, 21278, 40>>, 820 >>,
    << <<20015, 23952, 8087, 203>>, 821 >>,
    << <<25019, 21748, 1917, 254>>, 824 >>,
    << <<32021, 17688, 25774, 158>>, 828 >>,
    << <<20013, 2863, 7917, 99>>, 832 >>,
    << <<14391, 1471, 16597, 15>>, 838 >>,
    << <<6419, 7357, 17449, 77>>, 839 >>,
    << <<18411, 14461, 3750, 12>>, 845 >>,
    << <<26519, 6771, 18752, 60>>, 846 >>,
    << <<17145, 16929, 14112, 151>>, 848 >>,
    << <<7799, 2645, 21661, 23>>, 854 >>,
    << <<12453, 26452, 20002, 236>>, 854 >>,
    << <<24167, 24724, 28885, 147>>, 858 >>,
    << <<30209, 6329, 27915, 184>>, 861 >>,
    << <<6593, 32628, 17446, 115>>, 865 >>,
    << <<8241, 24401, 13616, 144>>, 868 >>,
    << <<18493, 30501, 17020, 180>>, 871 >>,
    << <<31309, 5358, 21276, 225>>, 874 >>,
    << <<10951, 3281, 26687, 8>>, 882 >>,
    << <<21987, 16406, 2363, 44>>, 883 >>,
    << <<11631, 16497, 11817, 220>>, 884 >>,
    << <<27749, 30790, 23769, 137>>, 888 >>,
    << <<18303, 13912, 5136, 172>>, 891 >>,
    << <<11439, 8695, 19594, 107>>, 895 >>,
    << <<6107, 27253, 16300, 134>>, 898 >>,
    << <<7913, 649, 1996, 84>>, 902 >>, << <<18083, 811, 2495, 105>>, 905 >>,
    << <<19987, 22781, 27403, 32>>, 910 >>,
    << <<1631, 15604, 5946, 164>>, 911 >>,
    << <<17403, 17944, 20100, 102>>, 915 >>,
    << <<10877, 27599, 4370, 64>>, 919 >>,
    << <<25927, 29104, 1365, 20>>, 924 >>,
    << <<29895, 28903, 13658, 200>>, 924 >>,
    << <<7743, 6564, 10326, 31>>, 930 >>, << <<5947, 53, 18863, 156>>, 931 >>,
    << <<7813, 12321, 28173, 97>>, 935 >>,
    << <<25363, 11796, 5320, 61>>, 939 >>,
    << <<8059, 10035, 18239, 9>>, 945 >>,
    << <<7527, 17408, 25660, 47>>, 946 >>,
    << <<4867, 21505, 29998, 238>>, 947 >>,
    << <<11761, 19008, 21662, 74>>, 952 >>,
    << <<14701, 7376, 10694, 93>>, 955 >>,
    << <<18681, 31872, 19078, 14>>, 961 >>,
    << <<27869, 28290, 29858, 72>>, 962 >>,
    << <<4137, 5191, 9111, 182>>, 964 >>,
    << <<29747, 31064, 27772, 227>>, 967 >>,
    << <<24133, 14430, 14750, 4>>, 976 >>
  >>

\* e[k]
E10(k) == Fin(0, PowersOfTen[k + 1][1], PowersOfTen[k + 1][2])

\* INT_MAX of the C int that holds the exponent
IntMax == 2147483647

\* a C int: its value n, and whether a signed overflow has happened on the
\* way to it.  After an overflow n is the value in two's complement, one
\* of the values a build can hold then.
CInt(n, undefined) == [n |-> n, undefined |-> undefined]

\* a + b in a C int
IntAdd(a0, b0) ==
  CHOOSE r \in {
    IF b.n > 0 /\ a.n > IntMax - b.n
    THEN CInt((a.n - IntMax - 1) + (b.n - IntMax - 1), TRUE)
    ELSE IF b.n < 0 /\ a.n < (0 - IntMax - 1) - b.n
    THEN CInt((a.n + IntMax + 1) + (b.n + IntMax + 1), TRUE)
    ELSE CInt(a.n + b.n, a.undefined \/ b.undefined)
  : a \in {a0}, b \in {b0} } : TRUE

\* a - b in a C int
IntSub(a0, b0) ==
  CHOOSE r \in {
    IF b.n = 0 - IntMax - 1
    THEN CInt(IF a.n >= 0 THEN (a.n - IntMax) - 1 ELSE (a.n + IntMax) + 1, TRUE)
    ELSE IntAdd(a, CInt(0 - b.n, b.undefined))
  : a \in {a0}, b \in {b0} } : TRUE

\* n * 10 in a C int
IntTimes10(n0) ==
  CHOOSE r \in {
    CHOOSE r1 \in { IntAdd(n5, n5) : n5 \in {IntAdd(IntAdd(n2, n2), n)} } : TRUE
  : n \in {n0}, n2 \in {IntAdd(n0, n0)} } : TRUE

\* the first position from i on that holds no whitespace
SkipSpace(str, i) ==
  SetMin({Len(str) + 1} \cup {j \in i..Len(str) : ~isspace_ascii(str[j])})

\* the first position from i on that holds no digit
SkipDigits(str, i) ==
  SetMin({Len(str) + 1} \cup {j \in i..Len(str) : ~IsDigit(str[j])})

\* number = number * 10. + digit over positions i..j-1, from number
RECURSIVE Accumulate(_, _, _, _)
Accumulate(str, i0, j, number0) ==
  CHOOSE r \in {
    IF j <= i THEN number
    ELSE Accumulate(str, i + 1, j,
                    FAdd(FMul(number, FromInt(10)), FromInt(DigitVal(str[i]))))
  : i \in {i0}, number \in {number0} } : TRUE

\* n = n * 10 + digit over positions i..j-1, from n, in a C int
RECURSIVE AccumulateInt(_, _, _, _)
AccumulateInt(str, i0, j, n0) ==
  CHOOSE r \in {
    IF j <= i THEN n
    ELSE AccumulateInt(str, i + 1, j,
                       IntAdd(IntTimes10(n), CInt(DigitVal(str[i]), FALSE)))
  : i \in {i0}, n \in {n0} } : TRUE

\* what precise_xstrtod leaves: the number, the position reached, whether
\* the error is set, and whether the string may spell an integer
Parse(number, p, error, maybe_int) ==
  [number |-> number, p |-> p, error |-> error, maybe_int |-> maybe_int,
   killed |-> FALSE]

\* a double that the behaviour of the code leaves open: any double
Unspecified == [k |-> "any", s |-> 0, m |-> <<>>, e |-> 0]

\* precise_xstrtod does not return: a signal has killed the process
ParseKilled ==
  [number |-> NaN, p |-> 0, error |-> TRUE, maybe_int |-> FALSE, killed |-> TRUE]

\* the range check, the scaling by 10^exponent, and the trailing
\* whitespace, for an exponent in the C int
ParseScaled(str, number0, exponent0, p, maybe_int) ==
  CHOOSE r \in {
    IF exponent > MaxExponent THEN Parse(Inf(0), p, TRUE, maybe_int)
    ELSE CHOOSE r1 \in {
           Parse(scaled, SkipSpace(str, p), scaled.k = "inf", maybe_int)
         : scaled \in {
             IF exponent > 0 THEN FMul(number, E10(exponent))
             ELSE IF exponent < 0 - MaxExponent
             THEN (IF exponent < 0 - 2 * MaxExponent THEN Zero
                   ELSE FDiv(FDiv(number, E10(0 - MaxExponent - exponent)),
                             E10(MaxExponent)))
             ELSE FDiv(number, E10(0 - exponent)) } } : TRUE
  : number \in {number0}, exponent \in {exponent0} } : TRUE

\* after the exponent, at position p.  With an exponent whose computation
\* overflowed the outcomes are: the one of the wrapped exponent; the
\* process killed; the range error; and, the number being scaled by what
\* lies outside the table, any double.
ParseEnd(str, number0, exponent0, p0, maybe_int) ==
  CHOOSE r \in {
    IF exponent.undefined
    THEN {ParseScaled(str, number, exponent.n, p, maybe_int), ParseKilled,
          Parse(Inf(0), p, TRUE, maybe_int),
          Parse(Unspecified, SkipSpace(str, p), FALSE, maybe_int)}
    ELSE {ParseScaled(str, number, exponent.n, p, maybe_int)}
  : number \in {number0}, exponent \in {exponent0}, p \in {p0} } : TRUE

\* after an "e" or "E" at p0 - 1: an optional sign at p0, then at most
\* MaxDigits digits from p5 on; without digits the "e" is given back
\* (p is moved back by one)
ParseExponentDigits(str, number, exponent, negative, p50, maybe_int) ==
  CHOOSE r \in {
    CHOOSE r1 \in {
      ParseEnd(str, number,
               IF negative
               THEN IntSub(CInt(exponent, FALSE),
                           AccumulateInt(str, p5, p6, CInt(0, FALSE)))
               ELSE IntAdd(CInt(exponent, FALSE),
                           AccumulateInt(str, p5, p6, CInt(0, FALSE))),
               IF p6 = p5 THEN p5 - 1 ELSE p6,
               FALSE)
    : p6 \in {Min2(SkipDigits(str, p5), p5 + MaxDigits)} } : TRUE
  : p5 \in {p50} } : TRUE

\* after the digits and decimals, at position p: an optional exponent
ParseExponent(str, number, exponent, p0, maybe_int) ==
  CHOOSE r \in {
    IF p <= Len(str) /\ str[p] \in {"e", "E"}
    THEN (IF p + 1 <= Len(str) /\ str[p + 1] \in {"-", "+"}
          THEN ParseExponentDigits(str, number, exponent, str[p + 1] = "-",
                                   p + 2, maybe_int)
          ELSE ParseExponentDigits(str, number, exponent, FALSE, p + 1, maybe_int))
    ELSE ParseEnd(str, number, CInt(exponent, FALSE), p, maybe_int)
  : p \in {p0} } : TRUE

\* the digits p1..p2-1 of which `used` are accumulated, and the decimals
\* p3..p4-1 (p3 = p4 = p2 when there is no "."): the decimals accumulated,
\* the check that there is a digit, and the sign
ParseNumber(str, negative, p1, used0, over, p3, p40, maybe_int) ==
  CHOOSE r \in {
    CHOOSE r1 \in {
      IF used + num_decimals = 0 THEN {Parse(Zero, p4, TRUE, maybe_int)}
      ELSE CHOOSE r2 \in {
             ParseExponent(str, IF negative THEN FNeg(number) ELSE number,
                           over - num_decimals, p4, maybe_int)
           : number \in {Accumulate(str, p3, p3 + num_decimals,
                                    Accumulate(str, p1, p1 + used, Zero))} } : TRUE
    : num_decimals \in {Min2(p4 - p3, MaxDigits - used)} } : TRUE
  : used \in {used0}, p4 \in {p40} } : TRUE

\* after the digits p1..p2-1: an optional "." and decimals
ParseDecimals(str, negative, p1, p20) ==
  CHOOSE r \in {
    IF p2 <= Len(str) /\ str[p2] = "."
    THEN ParseNumber(str, negative, p1, Min2(p2 - p1, MaxDigits),
                     (p2 - p1) - Min2(p2 - p1, MaxDigits),
                     p2 + 1, SkipDigits(str, p2 + 1), FALSE)
    ELSE ParseNumber(str, negative, p1, Min2(p2 - p1, MaxDigits),
                     (p2 - p1) - Min2(p2 - p1, MaxDigits), p2, p2, TRUE)
  : p2 \in {p20} } : TRUE

\* after the leading whitespace: an optional sign and digits
ParseSigned(str, p00) ==
  CHOOSE r \in {
    IF p0 <= Len(str) /\ str[p0] \in {"-", "+"}
    THEN ParseDecimals(str, str[p0] = "-", p0 + 1, SkipDigits(str, p0 + 1))
    ELSE ParseDecimals(str, FALSE, p0, SkipDigits(str, p0))
  : p0 \in {p00} } : TRUE

\* the outcomes of precise_xstrtod(str, &end, '.', 'e', '\0', 1, &error,
\* &maybe_int)
precise_xstrtod(str0) ==
  CHOOSE r \in { ParseSigned(str, SkipSpace(str, 1)) : str \in {str0} } : TRUE

\* the words floatify takes for infinity, after an optional sign
InfWords ==
  { <<"i", "n", "f">>, <<"i", "n", "f", "i", "n", "i", "t", "y">> }

\* str in lower case
Lowered(str) == [i \in 1..Len(str) |-> ToLower(str[i])]

\* what floatify leaves: whether the string was converted, the double, and
\* whether the string may spell an integer
Floated(ok, fval, maybe_int) ==
  [ok |-> ok, fval |-> fval, maybe_int |-> maybe_int, killed |-> FALSE]

\* floatify after precise_xstrtod has left x: to_double succeeds when no
\* error is set and the end of the string is reached; otherwise "inf" and
\* "infinity", in any case and with an optional sign, are the infinities,
\* and anything else is a parsing error
Floatified(str0, x0) ==
  CHOOSE r \in {
    IF x.killed THEN [ok |-> FALSE, fval |-> NaN, maybe_int |-> FALSE, killed |-> TRUE]
    ELSE IF ~x.error /\ x.p > Len(str) THEN Floated(TRUE, x.number, x.maybe_int)
    ELSE IF Lowered(str) \in InfWords THEN Floated(TRUE, Inf(0), FALSE)
    ELSE IF str # <<>> /\ Head(str) \in {"+", "-"} /\ Lowered(Tail(str)) \in InfWords
    THEN Floated(TRUE, Inf(IF Head(str) = "-" THEN 1 ELSE 0), FALSE)
    ELSE Floated(FALSE, NaN, FALSE)
  : str \in {str0}, x \in {x0} } : TRUE

\* the outcomes of floatify
floatify(str0) ==
  CHOOSE r \in {
    { Floatified(str, x) : x \in xs }
  : str \in {str0}, xs \in {precise_xstrtod(str0)} } : TRUE

\* 10^k
RECURSIVE Pow10(_)
Pow10(k0) ==
  CHOOSE r \in {
    IF k = 0 THEN <<1>>
    ELSE CHOOSE r1 \in {
           IF k % 2 = 1 THEN BMulSmall(BMul(h, h), 10) ELSE BMul(h, h)
         : h \in {Pow10(k \div 2)} } : TRUE
  : k \in {k0} } : TRUE

\* the natural number the digits at positions i..j-1 spell: the number of
\* the first half times the power of ten of the second, plus its number
RECURSIVE DigitsToNat(_, _, _)
DigitsToNat(str, i0, j0) ==
  CHOOSE r \in {
    IF j <= i THEN <<>>
    ELSE IF j = i + 1 THEN BNorm(<<DigitVal(str[i])>>)
    ELSE CHOOSE r1 \in {
           BAdd(BMul(Pow10(j - mid), hi), lo)
         : mid \in {(i + j) \div 2},
           hi \in {DigitsToNat(str, i, (i + j) \div 2)},
           lo \in {DigitsToNat(str, (i + j) \div 2, j)} } : TRUE
  : i \in {i0}, j \in {j0} } : TRUE

\* the digits that tell whether an integer is in the range of int64 and
\* uint64: one of more than 20 digits, leading zeros apart, is above
\* 2^64 - 1 whatever its further digits
MaxIntDigits == 21

\* the first position from i on that holds no "0"
SkipZeros(str, i) ==
  SetMin({Len(str) + 1} \cup {j \in i..Len(str) : str[j] # "0"})

\* int(val) from the digits p1..p2-1, negative with a "-" before.  Of an
\* integer of more than MaxIntDigits digits the first MaxIntDigits are
\* kept: they spell a number out of range as well, and the elements of
\* the array are then the doubles.
IntFrom(str, negative, p10, p20) ==
  CHOOSE r \in {
    IntVal(IF negative /\ m # <<>> THEN 1 ELSE 0, m)
  : m \in {DigitsToNat(str, Min2(SkipZeros(str, p10), p20),
                       Min2(p20, Min2(SkipZeros(str, p10), p20) + MaxIntDigits))} } : TRUE

\* int(val) for a string that floatify took for an integer: whitespace, an
\* optional sign, digits, whitespace
PyInt(str0) ==
  CHOOSE r \in {
    IF p0 <= Len(str) /\ str[p0] \in {"-", "+"}
    THEN IntFrom(str, str[p0] = "-", p0 + 1, SkipDigits(str, p0 + 1))
    ELSE IntFrom(str, FALSE, p0, SkipDigits(str, p0))
  : str \in {str0}, p0 \in {SkipSpace(str0, 1)} } : TRUE

\* 2^64 - 1
UInt64Max == <<32767, 32767, 32767, 32767, 15>>

\* INT64_MIN <= v < 0, the magnitude of INT64_MIN being 2^63
IsSint(v) == v.s = 1 /\ BCmp(v.m, <<0, 0, 0, 0, 8>>) <= 0

\* INT64_MAX < v <= UINT64_MAX, INT64_MAX being 2^63 - 1
IsUint(v) ==
  /\ v.s = 0
  /\ BCmp(v.m, <<32767, 32767, 32767, 32767, 7>>) > 0
  /\ BCmp(v.m, UInt64Max) <= 0

\* v < INT64_MIN or v > UINT64_MAX
OutOfRange(v) ==
  \/ v.s = 1 /\ BCmp(v.m, <<0, 0, 0, 0, 8>>) > 0
  \/ v.s = 0 /\ BCmp(v.m, UInt64Max) > 0

\* the outcomes of one element of maybe_convert_numeric: the double of
\* floatify, and int(val) when the string may spell an integer
Converted(str0) ==
  CHOOSE r \in {
    { [ok |-> f.ok, fval |-> f.fval, maybe_int |-> f.maybe_int,
       as_int |-> IF f.ok /\ f.maybe_int THEN PyInt(str0) ELSE IntVal(0, <<>>),
       killed |-> f.killed] : f \in fs }
  : fs \in {floatify(str0)} } : TRUE

\* seen.float_ at the end: an element that is no integer (a failed
\* conversion is NaN), an integer out of the range of int64 and uint64, or
\* both a negative integer and one above the range of int64
SeenFloat(c) ==
  \/ \E i \in 1..Len(c) :
       ~c[i].ok \/ ~c[i].maybe_int \/ OutOfRange(c[i].as_int)
  \/ /\ \E i \in 1..Len(c) : IsSint(c[i].as_int)
     /\ \E i \in 1..Len(c) : IsUint(c[i].as_int)

\* what a conversion of an array leaves: the array, or the process killed
Returned(v) == [killed |-> FALSE, values |-> v]

Killed == [killed |-> TRUE, values |-> <<>>]

\* the sequences that take their i-th element from the i-th of the sets
Ways(sets) ==
  IF \A i \in 1..Len(sets) : Cardinality(sets[i]) = 1
  THEN { [i \in 1..Len(sets) |-> CHOOSE x \in sets[i] : TRUE] }
  ELSE { f \in [1..Len(sets) -> UNION {sets[i] : i \in 1..Len(sets)}] :
           \A i \in 1..Len(sets) : f[i] \in sets[i] }

\* the outcomes of lib.maybe_convert_numeric(values, set(),
\* coerce_numeric=True): the doubles if a float was seen, the integers
\* otherwise
maybe_convert_numeric(strs0) ==
  CHOOSE r \in {
    { IF \E i \in 1..Len(c) : c[i].killed THEN Killed
      ELSE IF SeenFloat(c) THEN Returned([i \in 1..Len(c) |-> c[i].fval])
      ELSE Returned([i \in 1..Len(c) |-> c[i].as_int])
    : c \in Ways(cs) }
  : cs \in {[i \in 1..Len(strs0) |-> Converted(strs0[i])]} } : TRUE

\* a series: its values, and whether they are numbers or strings
Series(numeric, v) == [numeric |-> numeric, values |-> v]

\* the outcomes of pd.to_numeric(series, errors="coerce").to_numpy(): a
\* series of numbers is returned as it is, one of strings is converted
to_numeric(series) ==
  IF series.numeric THEN {Returned(series.values)}
  ELSE maybe_convert_numeric(series.values)

(***************************************************************************)
(* pd.read_csv on a file given as its rows of cells (a cell is a string   *)
(* without separators, quotes or line ends, and none of the words that    *)
(* read_csv takes for a boolean).  The tokenizer skips the blank lines    *)
(* (skip_blank_lines is True by default): a line of no character, or of   *)
(* spaces and tabs only, is a row of one such cell here.  The files       *)
(* modelled are rectangular once their blank lines are dropped.  A file   *)
(* of no line but blank ones raises EmptyDataError whatever the header    *)
(* option; otherwise header=0 (the default) takes the first line left as  *)
(* the column labels and header=None takes every line left as data.       *)
(* read_csv                                                               *)
(* converts every column while it reads, cell after cell with the         *)
(* conversions to_numeric has, a cell that spells a missing value being   *)
(* NaN: a column whose cells all convert is a column of numbers, and at   *)
(* the first cell that does not the column is left as text.               *)
(***************************************************************************)
\* the cells that read_csv takes for missing values
NaValues ==
  { <<>>, <<"#", "N", "/", "A">>, <<"#", "N", "/", "A", " ", "N", "/", "A">>,
    <<"#", "N", "A">>, <<"-", "1", ".", "#", "I", "N", "D">>,
    <<"-", "1", ".", "#", "Q", "N", "A", "N">>, <<"-", "N", "a", "N">>,
    <<"-", "n", "a", "n">>, <<"1", ".", "#", "I", "N", "D">>,
    <<"1", ".", "#", "Q", "N", "A", "N">>, <<"<", "N", "A", ">">>,
    <<"N", "/", "A">>, <<"N", "A">>, <<"N", "U", "L", "L">>, <<"N", "a", "N">>,
    <<"N", "o", "n", "e">>, <<"n", "/", "a">>, <<"n", "a", "n">>,
    <<"n", "u", "l", "l">> }

\* the rows that the tokenizer keeps: a blank line, the row of one cell of
\* spaces and tabs only, is skipped
skip_blank_lines(rows) ==
  SelectSeq(rows, LAMBDA row :
    ~(Len(row) = 1 /\ \A i \in 1..Len(row[1]) : row[1][i] \in {" ", "\t"}))

\* the outcomes of the conversion of one column, c being one way its cells
\* come out: the process is killed at a cell if every cell before it was
\* converted; else the column is its cells as text if a cell is not
\* converted, and numbers otherwise, integers unless a float was seen
ColumnRead(cells0) ==
  CHOOSE r \in {
    { IF \E k \in 1..Len(c) : c[k].killed /\ \A i \in 1..(k - 1) : c[i].ok
      THEN [killed |-> TRUE, numeric |-> FALSE, cells |-> cells, values |-> <<>>]
      ELSE IF \E i \in 1..Len(c) : ~c[i].ok
      THEN [killed |-> FALSE, numeric |-> FALSE, cells |-> cells, values |-> <<>>]
      ELSE IF SeenFloat(c)
      THEN [killed |-> FALSE, numeric |-> TRUE, cells |-> cells,
            values |-> [i \in 1..Len(c) |-> c[i].fval]]
      ELSE [killed |-> FALSE, numeric |-> TRUE, cells |-> cells,
            values |-> [i \in 1..Len(c) |-> c[i].as_int]]
    : c \in Ways(cs) }
  : cells \in {cells0},
    cs \in {[i \in 1..Len(cells0) |->
              IF cells0[i] \in NaValues
              THEN {[ok |-> TRUE, fval |-> NaN, maybe_int |-> FALSE,
                     as_int |-> IntVal(0, <<>>), killed |-> FALSE]}
              ELSE Converted(cells0[i])]} } : TRUE

\* the outcomes of pd.read_csv: the exception when no line is left, or a
\* frame of converted columns, or the process killed in the conversion of a
\* column
read_csv(rows0, header) ==
  CHOOSE r \in {
    IF rows = <<>>
    THEN {[raised |-> TRUE, killed |-> FALSE, ncols |-> 0, columns |-> <<>>]}
    ELSE { [raised |-> FALSE, killed |-> \E j \in 1..Len(w) : w[j].killed,
            ncols |-> Len(w), columns |-> w]
         : w \in Ways([j \in 1..Len(rows[1]) |->
                         ColumnRead([i \in 1..Len(data) |-> data[i][j]])]) }
  : rows \in {skip_blank_lines(rows0)},
    data \in {IF header /\ skip_blank_lines(rows0) # <<>>
              THEN Tail(skip_blank_lines(rows0))
              ELSE skip_blank_lines(rows0)} } : TRUE

\* lines 104-107: try the default read, on any exception read without header
ReadWithFallback(rows) ==
  {df \in read_csv(rows, TRUE) : ~df.raised}
  \cup (IF \E df \in read_csv(rows, TRUE) : df.raised
        THEN read_csv(rows, FALSE) ELSE {})

\* selectbox with a fault: the default is the last option
selectbox_last(ncols, choice) == IF choice = 0 THEN ncols ELSE choice

\* st.selectbox(options): the option picked, the first one when the user has
\* picked none (choice = 0)
selectbox(ncols, choice) == IF choice = 0 THEN 1 ELSE choice

\* lines 108-112: the position of the measurement column
SelectColumn(df, choice) ==
  IF df.ncols = 1 THEN 1 ELSE selectbox(df.ncols, choice)

\* df[column]: the series of one column
Column(df, c) ==
  IF df.columns[c].numeric THEN Series(TRUE, df.columns[c].values)
  ELSE Series(FALSE, df.columns[c].cells)

(***************************************************************************)
(* One run of the script.  The widgets' values are the inputs:            *)
(*   method   "direct" or "csv" (st.radio, line 86)                       *)
(*   lsl, usl the limits (st.number_input, lines 89 and 91)               *)
(*   file     the uploaded file, if any (st.file_uploader, line 101)      *)
(*   choice   the column picked in the selectbox, 0 if none (line 112)    *)
(*   raw      the pasted text (st.text_area, line 117)                    *)
(*   clicked  whether the button was pressed (st.button, line 118)        *)
(* and values, stats and cpk are the script's variables; metric is the    *)
(* kind of text st.metric shows, the formatted number or the words for    *)
(* "not computable".  The chart and the download button that follow show  *)
(* the same values and set none.  pc is the script's position; an         *)
(* exception that nothing catches ends the run at "crashed", a signal     *)
(* that kills the process at "killed", and a conversion that leaves a     *)
(* value open at "undefined": how the run goes on from there is not       *)
(* determined by the code.                                                 *)
(*                                                                         *)
(* args and ret are the arguments and the result of a call of              *)
(* compute_cpk on its own, as a library function.                          *)
(***************************************************************************)
VARIABLES method, lsl, usl, file, choice, raw, clicked,
          values, stats, cpk, metric, pc, args, ret

vars == <<method, lsl, usl, file, choice, raw, clicked,
          values, stats, cpk, metric, pc, args, ret>>

inputs == <<method, lsl, usl, file, choice, raw, clicked>>

call == <<args, ret>>

\* bounds of the inputs explored
MaxRaw == 4

MaxRows == 2

MaxN == 3

NoFile == [present |-> FALSE, rows |-> <<>>]

Uploaded(rows) == [present |-> TRUE, rows |-> rows]

\* all sequences over S of length at most n
SeqsUpTo(S, n) == UNION {[1..k -> S] : k \in 0..n}

RawAlphabet == {"1", ",", "\n", " ", "a"}

\* the example of the specification, and measurements with decimals, with
\* tabs, carriage returns and other whitespace, with a zero that has a
\* sign, with many decimals, with exponents (one beyond the doubles) and
\* the words for infinity, with more digits than a double holds, and with
\* a power of ten and a number of digits that the conversion does not
\* round to the nearest float
RawSamples ==
  { <<"1", ",", " ", "2", ",", ",", " ", "a", "b", "c", " ", ",", "3">>,
    <<"0", ".", "1", ",", "0", ".", "1", ",", "0", ".", "1">>,
    <<"-", "0", ".", "5", "\n", "+", "2", ".", "\n", ".", "\n", "1", " ", "2">>,
    <<"1", "\t", ",", "2", "\r", "\n", "3", "\r", "\n">>,
    <<"1", ",", "\t", ",", "VT", "2", "NBSP", ",", "U+3000", "\f">>,
    <<"-", "0">>,
    <<"-", "0", ",", "1", ".", "5">>,
    <<"0", ".", "0", "0", "0", "0", "0", "0", "0", "0", "0", "1">>,
    <<"1", "e", "2", ",", "2", ".", "5", "E", "-", "3", ",", "1", "e", ",",
      "1", "e", "4", "0", "0">>,
    <<"I", "n", "f", ",", "-", "i", "n", "f", "i", "n", "i", "t", "y">>,
    <<"1", "2", "3", "4", "5", "6", "7", "8", "9", "0", "1", "2", "3", "4",
      "5", "6", "7", "8">>,
    <<"6", "1", "2", "e", "2", "3", ",", "0", ".", "9", "2", "2", "6", "3",
      "4", "7", "3", "5", "1", "5", "0", "8", "9", "0", "3">> }

RawSet == SeqsUpTo(RawAlphabet, MaxRaw) \cup RawSamples

\* files of one column under a header: integers with whitespace around
\* them and a zero with a sign, a decimal beside a word, and a number
\* beside a missing value; files with blank lines: between the header and
\* a number, of spaces and tabs between two numbers, before the only
\* line, alone in the file, and between the rows of two columns
FileSamples ==
  { << << <<"a">> >>, << <<"\t", "1", " ">> >>, << <<"-", "0">> >> >>,
    << << <<"a">> >>, << <<" ", "2", ".", "5">> >>, << <<"a">> >> >>,
    << << <<"a">> >>, << <<"N", "A">> >>, << <<"2">> >> >>,
    << << <<"a">> >>, << <<>> >>, << <<"2">> >> >>,
    << << <<"a">> >>, << <<"1">> >>, << <<" ", "\t">> >>, << <<"2">> >> >>,
    << << <<>> >>, << <<"1">> >> >>,
    << << <<>> >> >>,
    << << <<>> >>, << <<"a">>, <<"a">> >>, << <<>> >>,
       << <<"1">>, <<"2">> >> >> }

\* the rectangular files of at most MaxRows rows and two columns, the
\* empty file among them, and the samples
FileSet ==
  UNION {[1..r -> [1..w -> { <<"1">>, <<"2">>, <<"a">> }]]
           : r \in 0..MaxRows, w \in {1, 2}}
  \cup FileSamples

AppLimits == {NaN, FromInt(3)}

NoArgs == [mean |-> None, sigma |-> None, usl |-> None, lsl |-> None]

\* lines 95-96, and nothing computed or shown yet
Fresh ==
  /\ values = None
  /\ stats = None
  /\ cpk = None
  /\ metric = ""

NoCall ==
  /\ args = NoArgs
  /\ ret = None

Init ==
  /\ method \in {"direct", "csv"}
  /\ lsl \in {NaN, Zero}
  /\ usl \in AppLimits
  /\ IF method = "direct"
     THEN /\ file = NoFile
          /\ choice = 0
          /\ raw \in RawSet
          /\ clicked \in BOOLEAN
     ELSE /\ file \in {NoFile} \cup {Uploaded(r) : r \in FileSet}
          /\ choice \in (IF file.present /\ skip_blank_lines(file.rows) # <<>>
                            /\ Len(skip_blank_lines(file.rows)[1]) > 1
                         THEN 0..Len(skip_blank_lines(file.rows)[1]) ELSE {0})
          /\ raw = <<>>
          /\ clicked = FALSE
  /\ Fresh
  /\ NoCall
  /\ pc = "input"

\* lines 116-121: the direct-input branch
DirectInput ==
  /\ pc = "input"
  /\ method = "direct"
  /\ IF clicked
     THEN \E out \in to_numeric(Series(FALSE, Tokens(raw))) :
            IF out.killed
            THEN /\ pc' = "killed"
                 /\ UNCHANGED <<values, stats>>
            ELSE IF \E i \in 1..Len(out.values) : out.values[i] = Unspecified
            THEN /\ pc' = "undefined"
                 /\ values' = out.values
                 /\ UNCHANGED stats
            ELSE /\ values' = out.values
                 /\ stats' = summarize(out.values)
                 /\ pc' = "result"
     ELSE /\ pc' = "result"
          /\ UNCHANGED <<values, stats>>
  /\ UNCHANGED <<inputs, cpk, metric, call>>

\* lines 99-114: the CSV upload branch
CsvUpload ==
  /\ pc = "input"
  /\ method = "csv"
  /\ IF ~file.present
     THEN /\ pc' = "result"
          /\ UNCHANGED <<values, stats>>
     ELSE \E df \in ReadWithFallback(file.rows) :
            IF df.killed
            THEN /\ pc' = "killed"
                 /\ UNCHANGED <<values, stats>>
            ELSE IF df.raised
            THEN /\ pc' = "crashed"
                 /\ UNCHANGED <<values, stats>>
            ELSE \E out \in to_numeric(Column(df, SelectColumn(df, choice))) :
                   IF out.killed
                   THEN /\ pc' = "killed"
                        /\ UNCHANGED <<values, stats>>
                   ELSE IF \E i \in 1..Len(out.values) : out.values[i] = Unspecified
                   THEN /\ pc' = "undefined"
                        /\ values' = out.values
                        /\ UNCHANGED stats
                   ELSE /\ values' = out.values
                        /\ stats' = summarize(out.values)
                        /\ pc' = "result"
  /\ UNCHANGED <<inputs, cpk, metric, call>>

\* lines 126-130: the result display
Result ==
  /\ pc = "result"
  /\ IF stats = None
     THEN /\ pc' = "done"
          /\ UNCHANGED <<cpk, metric>>
     ELSE \E c \in {compute_cpk(stats.mean, stats.std, usl, lsl)} :
            IF c = Raised
            THEN /\ pc' = "crashed"
                 /\ UNCHANGED <<cpk, metric>>
            ELSE /\ cpk' = c
                 /\ metric' = (IF IsNaN(c) THEN "not computable" ELSE "number")
                 /\ pc' = "done"
  /\ UNCHANGED <<inputs, values, stats, call>>

Next == DirectInput \/ CsvUpload \/ Result

Spec == Init /\ [][Next]_vars

(***************************************************************************)
(* summarize on an array of measurements, then the result display: the    *)
(* script from line 114 (or 121) on, the array being any array of at most *)
(* MaxN floats, missing values among them.                                 *)
(***************************************************************************)
\* 0.1, exactly representable values of both signs, and the missing value
StatValues == {NaN, Dec(1, 1), FromInt(1), FromInt(2), FromInt(0 - 3)}

InitStats ==
  /\ method = "direct"
  /\ lsl \in {NaN, Zero}
  /\ usl \in AppLimits
  /\ file = NoFile
  /\ choice = 0
  /\ raw = <<>>
  /\ clicked = TRUE
  /\ values \in SeqsUpTo(StatValues, MaxN)
  /\ stats = None
  /\ cpk = None
  /\ metric = ""
  /\ NoCall
  /\ pc = "summarize"

\* lines 114, 121: stats = summarize(values)
Summarize ==
  /\ pc = "summarize"
  /\ stats' = summarize(values)
  /\ pc' = "result"
  /\ UNCHANGED <<inputs, values, cpk, metric, call>>

NextStats == Summarize \/ Result

SpecStats == InitStats /\ [][NextStats]_vars

(***************************************************************************)
(* compute_cpk called on its own: every argument may be None or NaN.      *)
(***************************************************************************)
CpkMeans == {None, NaN, FromInt(0 - 1), Zero, Dec(1, 1), FromInt(1), FromInt(2)}

CpkSigmas ==
  {None, NaN, Inf(1), FromInt(0 - 1), Fin(1, <<>>, 0), Zero,
   Dec(1, 1), Dec(5, 1), FromInt(1)}

CpkLimits == {None, NaN, FromInt(0 - 1), Zero, Dec(3, 1), FromInt(1), FromInt(3)}

InitCpk ==
  /\ method = "direct"
  /\ lsl = NaN
  /\ usl = NaN
  /\ file = NoFile
  /\ choice = 0
  /\ raw = <<>>
  /\ clicked = FALSE
  /\ Fresh
  /\ args \in [mean : CpkMeans, sigma : CpkSigmas, usl : CpkLimits, lsl : CpkLimits]
  /\ ret = None
  /\ pc = "call"

\* lines 37-48: ret = compute_cpk(mean, sigma, usl, lsl)
ComputeCpk ==
  /\ pc = "call"
  /\ \E c \in {compute_cpk(args.mean, args.sigma, args.usl, args.lsl)} :
       /\ ret' = c
       /\ pc' = (IF c = Raised THEN "raised" ELSE "returned")
  /\ UNCHANGED <<inputs, values, stats, cpk, metric, args>>

NextCpk == ComputeCpk

SpecCpk == InitCpk /\ [][NextCpk]_vars

(***************************************************************************)
(* Properties of compute_cpk, checked under SpecCpk.                       *)
(***************************************************************************)
\* the call of compute_cpk has ended, by a return or by an exception
Called == pc \in {"returned", "raised"}

\* x is a number: neither None nor NaN
Given(x) == x.k \in {"fin", "inf"}

\* x is None, NaN, or a number <= 0
BadSigma(x) ==
  \/ x.k \in {"none", "nan"}
  \/ x.k = "inf" /\ x.s = 1
  \/ x.k = "fin" /\ (x.m = <<>> \/ x.s = 1)

\* x is a number > 0
GoodSigma(x) == Given(x) /\ ~BadSigma(x)

\* (usl - mean) / (3 sigma)
UpperSide == FDiv(FSub(args.usl, args.mean), FMul(FromInt(3), args.sigma))

\* (mean - lsl) / (3 sigma)
LowerSide == FDiv(FSub(args.mean, args.lsl), FMul(FromInt(3), args.sigma))

\* C1: whenever sigma is None, NaN or <= 0, compute_cpk returns NaN and
\* raises nothing, whatever the mean and the limits (None among them).
C1_BadSigmaIsUndefined ==
  (Called /\ BadSigma(args.sigma)) => (pc = "returned" /\ IsNaN(ret))

\* sigma = 0 with a mean of None and an upper limit: NaN, and no TypeError
C1_Witness ==
  /\ pc = "returned"
  /\ args.sigma = Zero
  /\ args.mean = None
  /\ args.usl = FromInt(1)
  /\ IsNaN(ret)

\* C2: for a defined mean and sigma > 0, compute_cpk returns the least of
\* the one-sided values of the limits that are given: the lesser of the two
\* when both are, the only one when one is, NaN when none is.
C2_MinOfOneSided ==
  (Called /\ Given(args.mean) /\ GoodSigma(args.sigma)) =>
    /\ pc = "returned"
    /\ (Given(args.usl) /\ Given(args.lsl)) =>
         /\ ret \in {UpperSide, LowerSide}
         /\ FLe(ret, UpperSide)
         /\ FLe(ret, LowerSide)
    /\ (Given(args.usl) /\ ~Given(args.lsl)) => ret = UpperSide
    /\ (~Given(args.usl) /\ Given(args.lsl)) => ret = LowerSide
    /\ (~Given(args.usl) /\ ~Given(args.lsl)) => IsNaN(ret)

\* mean 1, sigma 0.5, limits 0 and 3: the lower side, 1/1.5, is the lesser
C2_Witness ==
  /\ pc = "returned"
  /\ args = [mean |-> FromInt(1), sigma |-> Dec(5, 1),
             usl |-> FromInt(3), lsl |-> Zero]
  /\ ret = LowerSide
  /\ FLt(LowerSide, UpperSide)

\* C10: with sigma > 0, a defined mean and both limits given, compute_cpk
\* validates nothing: it returns a number, negative exactly when the mean
\* is below lsl or above usl (so always when usl < lsl), and never greater
\* than either one-sided value.
C10_NoValidation ==
  (Called /\ Given(args.mean) /\ GoodSigma(args.sigma)
          /\ Given(args.usl) /\ Given(args.lsl)) =>
    /\ pc = "returned"
    /\ Given(ret)
    /\ FLt(ret, Zero) <=> (FLt(args.mean, args.lsl) \/ FLt(args.usl, args.mean))
    /\ FLt(args.usl, args.lsl) => FLt(ret, Zero)
    /\ ~FLt(UpperSide, ret)
    /\ ~FLt(LowerSide, ret)

\* usl = -1 below lsl = 1 with the mean between them: a negative Cpk
C10_Witness ==
  /\ pc = "returned"
  /\ args = [mean |-> Zero, sigma |-> FromInt(1),
             usl |-> FromInt(0 - 1), lsl |-> FromInt(1)]
  /\ FLt(ret, Zero)

(***************************************************************************)
(* Properties of summarize, checked under SpecStats.  The arithmetic mean *)
(* and the sample standard deviation are the exact ones, computed in      *)
(* integers: with every value a multiple of 2^E, X[i] = x[i] / 2^E,       *)
(* S = X[1] + ... + X[n] and Q = the sum of the (n X[i] - S)^2,           *)
(*     mean = 2^E S / n      variance = 2^2E Q / (n^2 (n - 1)).           *)
(* A float result is the exact one when it is within 2^-50 times the      *)
(* greatest magnitude of the values of it, a few units in the last place. *)
(***************************************************************************)
\* summarize has returned
Summarized == pc # "summarize" /\ stats # None

\* the values as floats: an integer array holds the integers themselves
Numbers ==
  [i \in 1..Len(values) |->
     IF values[i].k = "int"
     THEN (IF values[i].s = 1 THEN FNeg(FromNat(values[i].m))
           ELSE FromNat(values[i].m))
     ELSE values[i]]

\* the values that are not missing
Measured == SelectSeq(Numbers, LAMBDA v : v.k # "nan")

\* an integer with a sign: (-1)^s * m
Signed(s, m) == [s |-> s, m |-> m]

SNeg(a) == Signed(1 - a.s, a.m)

SAdd(a, b) ==
  IF a.s = b.s THEN Signed(a.s, BAdd(a.m, b.m))
  ELSE IF BCmp(a.m, b.m) >= 0 THEN Signed(a.s, BSub(a.m, b.m))
  ELSE Signed(b.s, BSub(b.m, a.m))

\* x / 2^E for a finite float x that is a multiple of 2^E
Scaled(x, E) == Signed(x.s, BShl(x.m, x.e - E))

\* the least exponent of the values: each is a multiple of 2^ExpMin
ExpMin(a) == SetMin({a[i].e : i \in 1..Len(a)})

\* X[1] + ... + X[n]
RECURSIVE ExactSum(_, _, _)
ExactSum(a, E, n) ==
  IF n = 0 THEN Signed(0, <<>>)
  ELSE SAdd(ExactSum(a, E, n - 1), Scaled(a[n], E))

\* (N X[1] - S)^2 + ... + (N X[n] - S)^2
RECURSIVE ExactSquares(_, _, _, _, _)
ExactSquares(a, E, N, S, n) ==
  IF n = 0 THEN <<>>
  ELSE LET X == Scaled(a[n], E)
           D == SAdd(Signed(X.s, BMulSmall(X.m, N)), SNeg(S))
       IN  BAdd(ExactSquares(a, E, N, S, n - 1), BMul(D.m, D.m))

\* the greatest |X[i]|
MaxMagnitude(a, E) ==
  LET M == {Scaled(a[i], E).m : i \in 1..Len(a)}
  IN  CHOOSE m \in M : \A o \in M : BCmp(m, o) >= 0

\* | mean - 2^E S / n | <= 2^-50 max|x|, as
\* | n mean - S 2^E | 2^50 <= n max|x|, in units of 2^F
MeanIsExact(mean, a) ==
  LET n == Len(a)
      E == ExpMin(a)
      F == IF mean.m = <<>> THEN E ELSE Min2(E, mean.e)
      S == ExactSum(a, E, n)
      nmean == Signed(mean.s, BMulSmall(BShl(mean.m, mean.e - F), n))
      diff == SAdd(nmean, SNeg(Signed(S.s, BShl(S.m, E - F))))
  IN  /\ mean.k = "fin"
      /\ BCmp(BShl(diff.m, 50),
              BMulSmall(BShl(MaxMagnitude(a, E), E - F), n)) <= 0

\* | std - sqrt(2^2E Q / (n^2 (d))) | <= 2^-50 max|x| for the divisor d, as
\* (std - tol)^2 n^2 d <= 2^2E Q <= (std + tol)^2 n^2 d, in units of 2^G
StdIsExact(std, a, d) ==
  LET n == Len(a)
      E == ExpMin(a)
      G == (IF std.m = <<>> THEN E ELSE Min2(E, std.e)) - 50
      Q == BShl(ExactSquares(a, E, n, ExactSum(a, E, n), n), 2 * (E - G))
      t == BShl(std.m, std.e - G)
      tol == BShl(MaxMagnitude(a, E), E - G - 50)
      lo == IF BCmp(t, tol) >= 0 THEN BSub(t, tol) ELSE <<>>
      hi == BAdd(t, tol)
  IN  /\ std.k = "fin"
      /\ std.s = 0
      /\ BCmp(BMulSmall(BMul(lo, lo), n * n * d), Q) <= 0
      /\ BCmp(Q, BMulSmall(BMul(hi, hi), n * n * d)) <= 0

\* v is an element of a that none is less than
IsLeast(v, a) ==
  /\ \E i \in 1..Len(a) : a[i] = v
  /\ \A i \in 1..Len(a) : FLe(v, a[i])

\* v is an element of a that none is greater than
IsGreatest(v, a) ==
  /\ \E i \in 1..Len(a) : a[i] = v
  /\ \A i \in 1..Len(a) : FLe(a[i], v)

\* C3: summarize returns the number of non-missing values as count; with
\* none, mean, std, min and max are NaN; with one, mean = min = max = that
\* value and std is NaN; with two or more, mean is the arithmetic mean, min
\* and max the extrema and std the sample standard deviation (divisor n-1).
C3_SummaryByCount ==
  Summarized =>
    /\ stats.count = Len(Measured)
    /\ stats.count = 0 =>
         IsNaN(stats.mean) /\ IsNaN(stats.std) /\ IsNaN(stats.min) /\ IsNaN(stats.max)
    /\ stats.count = 1 =>
         /\ stats.mean = Measured[1]
         /\ stats.min = Measured[1]
         /\ stats.max = Measured[1]
         /\ IsNaN(stats.std)
    /\ stats.count >= 2 =>
         /\ MeanIsExact(stats.mean, Measured)
         /\ StdIsExact(stats.std, Measured, Len(Measured) - 1)
         /\ IsLeast(stats.min, Measured)
         /\ IsGreatest(stats.max, Measured)

\* 1, a missing value, 2: count 2, mean 1.5, std sqrt(0.5), min 1, max 2
C3_Witness ==
  /\ Summarized
  /\ values = <<FromInt(1), NaN, FromInt(2)>>
  /\ stats = [count |-> 2, mean |-> Dec(15, 1), std |-> FSqrt(Dec(5, 1)),
              min |-> FromInt(1), max |-> FromInt(2)]

\* C4: whenever at least one value is not missing, min <= mean <= max in
\* the record summarize returns.
C4_MeanWithinExtrema ==
  (Summarized /\ stats.count >= 1) =>
    /\ FLe(stats.min, stats.mean)
    /\ FLe(stats.mean, stats.max)

\* three values and a mean between two different extrema
C4_Witness ==
  /\ Summarized
  /\ stats.count = 3
  /\ FLt(stats.min, stats.mean)
  /\ FLt(stats.mean, stats.max)

(***************************************************************************)
(* Properties of the script run, checked under Spec.  What a piece of     *)
(* text denotes is stated apart from the parser: a numeral is an optional *)
(* sign, then digits with at most one "." among them and at least one     *)
(* digit, then optionally "e" or "E" and an integer; it denotes the float *)
(* nearest to its decimal value.  The words "inf" and "infinity" after an *)
(* optional sign are the numerals of the infinities.  A numeral whose     *)
(* value is beyond the greatest float converts to no number.  A value is  *)
(* the number of a numeral when it is that float or within a few units in *)
(* the last place of it.                                                   *)
(***************************************************************************)
\* the run is past the input branches
Parsed == pc \in {"result", "done", "crashed", "killed", "undefined"}

\* the whitespace characters: the blank, the controls tab, line feed,
\* vertical tab, form feed, carriage return and the four separators, and
\* the spaces and line separators beyond ASCII
Blanks ==
  {" ", "\t", "\n", "VT", "\f", "\r", "FS", "GS", "RS", "US", "NEL", "NBSP",
   "U+1680", "U+2000", "U+2001", "U+2002", "U+2003", "U+2004", "U+2005",
   "U+2006", "U+2007", "U+2008", "U+2009", "U+200A", "U+2028", "U+2029",
   "U+202F", "U+205F", "U+3000"}

\* t without the whitespace around it
Trimmed(t) ==
  LET black == {i \in 1..Len(t) : t[i] \notin Blanks}
  IN  IF black = {} THEN <<>> ELSE SubSeq(t, SetMin(black), SetMax(black))

\* t without its sign
Unsigned(t) == IF t # <<>> /\ Head(t) \in {"+", "-"} THEN Tail(t) ELSE t

\* the position of the exponent mark of t, 0 if it has none
ExpMark(t) ==
  IF \E i \in 1..Len(t) : t[i] \in {"e", "E"}
  THEN SetMin({i \in 1..Len(t) : t[i] \in {"e", "E"}})
  ELSE 0

\* t before its exponent mark
Mantissa(t) == IF ExpMark(t) = 0 THEN t ELSE SubSeq(t, 1, ExpMark(t) - 1)

\* t after its exponent mark
Exponent(t) == IF ExpMark(t) = 0 THEN <<>> ELSE SubSeq(t, ExpMark(t) + 1, Len(t))

\* digits with at most one "." among them, after an optional sign
IsDecimal(t) ==
  LET u == Unsigned(t)
  IN  /\ \A i \in 1..Len(u) : u[i] = "." \/ IsDigit(u[i])
      /\ Cardinality({i \in 1..Len(u) : u[i] = "."}) <= 1
      /\ \E i \in 1..Len(u) : IsDigit(u[i])

\* digits after an optional sign
IsInteger(t) ==
  LET u == Unsigned(t)
  IN  u # <<>> /\ \A i \in 1..Len(u) : IsDigit(u[i])

\* "inf" or "infinity" in any case, after an optional sign
IsInfinity(t) ==
  LET u == Unsigned(t)
      word == <<"i", "n", "f", "i", "n", "i", "t", "y">>
      capital == <<"I", "N", "F", "I", "N", "I", "T", "Y">>
  IN  /\ Len(u) \in {3, 8}
      /\ \A i \in 1..Len(u) : u[i] \in {word[i], capital[i]}

IsNumeral(t) ==
  \/ IsInfinity(t)
  \/ /\ IsDecimal(Mantissa(t))
     /\ ExpMark(t) = 0 \/ IsInteger(Exponent(t))

\* the natural number that a sequence of digits spells
RECURSIVE NatOf(_)
NatOf(d) ==
  IF d = <<>> THEN <<>>
  ELSE IF Len(d) = 1 THEN BNorm(<<DigitVal(d[1])>>)
  ELSE LET h == Len(d) \div 2
       IN  BAdd(BMul(NatOf(SubSeq(d, 1, h)), Pow10(Len(d) - h)),
                NatOf(SubSeq(d, h + 1, Len(d))))

\* the integer that the digits of u spell
RECURSIVE IntOf(_)
IntOf(u) ==
  IF u = <<>> THEN 0
  ELSE 10 * IntOf(SubSeq(u, 1, Len(u) - 1)) + DigitVal(u[Len(u)])

\* the number of digits of u after its "."
Decimals(u) ==
  IF \E i \in 1..Len(u) : u[i] = "."
  THEN Len(u) - (CHOOSE i \in 1..Len(u) : u[i] = ".")
  ELSE 0

\* d without its leading zeros
Significant(d) ==
  IF \A i \in 1..Len(d) : d[i] = "0" THEN <<>>
  ELSE SubSeq(d, SetMin({i \in 1..Len(d) : d[i] # "0"}), Len(d))

\* the exponent of a numeral; one of more than four digits counts as
\* 10000, far beyond the floats on either side
ExponentOf(t) ==
  LET x == Exponent(t)
      d == Significant(Unsigned(x))
      n == IF Len(d) > 4 THEN 10000 ELSE IntOf(d)
  IN  IF x # <<>> /\ Head(x) = "-" THEN 0 - n ELSE n

\* the power of ten of a numeral: its exponent less its decimals
PowerOf(t) == ExponentOf(t) - Decimals(Unsigned(Mantissa(t)))

\* the float nearest to n * 10^x: the exact product, or the exact
\* quotient to 64 bits and more with what is left as sticky, rounded once
Nearest(n, x) ==
  IF x >= 0 THEN FromNat(BMul(n, Pow10(x)))
  ELSE LET sh == 64 + BBitLen(Pow10(0 - x))
           qr == BDivMod(BShl(n, sh), Pow10(0 - x))
       IN  Round(0, qr[1], 0 - sh, qr[2] # <<>>)

\* the float a numeral denotes.  With d digits, leading zeros apart, and
\* the power of ten x its value is at least 10^(d+x-1) and less than
\* 10^(d+x): beyond the floats when d + x > 309, and nearest to zero when
\* d + x < -324.
NumeralValue(t) ==
  IF IsInfinity(t) THEN Inf(IF Head(t) = "-" THEN 1 ELSE 0)
  ELSE LET d == Significant(SelectSeq(Unsigned(Mantissa(t)), IsDigit))
           x == PowerOf(t)
           v == IF d = <<>> \/ Len(d) + x < 0 - 324 THEN Zero
                ELSE IF Len(d) + x > 309 THEN Inf(0)
                ELSE Nearest(NatOf(d), x)
       IN  IF Head(t) = "-" THEN FNeg(v) ELSE v

\* t is the numeral of a number: of an infinity, or of a value within the
\* floats
IsNumber(t) ==
  /\ IsNumeral(t)
  /\ IsInfinity(t) \/ NumeralValue(t).k = "fin"

\* the float a cell or token denotes, NaN if it is no numeral of a number
Denoted(t) == IF IsNumber(Trimmed(t)) THEN NumeralValue(Trimmed(t)) ELSE NaN

\* x is within 2^-50 times |y| of y, both finite and not zero: a few
\* units in the last place (the difference of floats so near is exact)
Close(x, y) ==
  /\ x.k = "fin" /\ y.k = "fin"
  /\ ~IsZero(x) /\ ~IsZero(y)
  /\ x.s = y.s
  /\ LET d == FSub(x, y) IN IsZero(d) \/ Top(d) <= Top(y) - 50

\* x is the number y: the same float, a zero for a zero of either sign, or
\* the float next to it that the rounding of the conversion may give
Same(x, y) == x = y \/ (IsZero(x) /\ IsZero(y)) \/ Close(x, y)

\* a and b hold the same numbers in the same order
SameNumbers(a, b) ==
  /\ Len(a) = Len(b)
  /\ \A i \in 1..Len(a) : Same(a[i], b[i])

\* the numbers of the numerals between the separators of text, from
\* position c + 1 on, in their order
RECURSIVE NumbersFrom(_, _)
NumbersFrom(text, c) ==
  IF c > Len(text) THEN <<>>
  ELSE LET n == SetMin({Len(text) + 1}
                       \cup {i \in (c + 1)..Len(text) : text[i] \in {",", "\n"}})
           t == Trimmed(SubSeq(text, c + 1, n - 1))
       IN  (IF IsNumber(t) THEN <<NumeralValue(t)>> ELSE <<>>)
           \o NumbersFrom(text, n)

\* the example of the specification: "1, 2,, abc ,3"
Example == <<"1", ",", " ", "2", ",", ",", " ", "a", "b", "c", " ", ",", "3">>

RECURSIVE LinesFrom(_)
LinesFrom(k) ==
  IF k > Len(file.rows) THEN <<>>
  ELSE (IF Len(file.rows[k]) = 1
           /\ \A i \in 1..Len(file.rows[k][1]) :
                 file.rows[k][1][i] \in {" ", "\t"}
        THEN <<>> ELSE <<file.rows[k]>>) \o LinesFrom(k + 1)

\* a file of more than one column has been uploaded and read
ManyColumns ==
  /\ Parsed
  /\ method = "csv"
  /\ file.present
  /\ LinesFrom(1) # <<>>
  /\ Len(LinesFrom(1)[1]) > 1

HeaderlessNumbers ==
  /\ Parsed
  /\ method = "csv"
  /\ file.present
  /\ file.rows # <<>>
  /\ Len(file.rows[1]) = 1
  /\ \A i \in 1..Len(file.rows) : IsNumeral(file.rows[i][1])

\* C7: of a headerless file of one column of numbers every row, the first
\* too, is in the measurement sequence.
C7_HeaderlessKeepsFirstRow ==
  HeaderlessNumbers =>
    /\ stats # None
    /\ Len(values) = Len(file.rows)
    /\ \A i \in 1..Len(file.rows) : Same(Numbers[i], Denoted(file.rows[i][1]))
    /\ stats.count = Len(file.rows)

\* something was submitted: the button pressed, or a file uploaded
Submitted == (method = "direct" /\ clicked) \/ (method = "csv" /\ file.present)

\* C8: no input ends the run in an unhandled failure: the run of a
\* submitted input ends with a summary record and a Cpk that is a float or
\* NaN.
C8_NoUnhandledFailure ==
  /\ pc \notin {"crashed", "killed"}
  /\ (pc = "done" /\ Submitted) =>
       /\ stats # None
       /\ stats.count = Len(Measured)
       /\ cpk.k \in {"fin", "inf", "nan"}

\* every measured value is the same
AllEqual == \A i, j \in 1..Len(Measured) : Measured[i] = Measured[j]

\* C9: with fewer than two measured values, or all of them equal, the Cpk
\* is undefined whatever the limits.
C9_DegenerateIsUndefined ==
  (pc = "done" /\ stats # None /\ (Len(Measured) < 2 \/ AllEqual)) =>
    /\ IsNaN(cpk)
    /\ metric = "not computable"
====
